---- MODULE Spec2Model ----
(***************************************************************************)
(* A model of the validated value types of the http crate: HeaderValue,    *)
(* Method, StatusCode and ByteStr.  Each type is modelled as an object     *)
(* slot (val/other, method, status, bstr) together with `call`, the record *)
(* of the last call made on it: the operation, its argument, the outcome   *)
(* (Ok, Err, Panic) and any returned data.  Bytes are naturals 0..255 and  *)
(* byte slices are sequences of them.  One behaviour is one object         *)
(* lifetime: a constructor call, then calls on the constructed value.      *)
(***************************************************************************)
EXTENDS Naturals, Integers, Sequences, FiniteSets, TLC

VARIABLES call, val, other, method, status, bstr, builder, chain, hmap, alt

vars == <<call, val, other, method, status, bstr, builder, chain, hmap, alt>>

(***************************************************************************)
(* Bounds of the model.                                                    *)
(***************************************************************************)
\* Longest chain of setter calls on a uri::Builder.
MaxChain == 3
\* Largest number of (name, value) pairs held by a HeaderMap.
MaxEntries == 4
\* Longest multi-byte input handed to a HeaderValue constructor.
MaxLen == 2
\* Longest input of the two-value comparison harness.
MaxPairLen == 2
\* Longest slice handed to StatusCode::from_bytes.
MaxStatusLen == 4
\* Longest buffer handed to a ByteStr constructor.
MaxUtf8Len == 4
\* Longest slice over MethodBytes handed to a Method constructor.
MaxTokenLen == 3
\* Longest run of one letter handed to a Method constructor.
MaxRun == 17

(***************************************************************************)
(* Inputs.                                                                 *)
(***************************************************************************)
Byte == 0..255

SeqsUpTo(S, n) == UNION {[1..k -> S] : k \in 0..n}

\* Boundary bytes of the header-value grammar: tab, LF, 31/32, '"', '~',
\* DEL, 128, the two bytes of U+00E9 (0xC3 0xA9) and 255.
HVBytes == {9, 10, 31, 32, 34, 126, 127, 128, 169, 195, 255}

\* Every single byte, and every longer slice over the boundary bytes.
HVInputs == {<<b>> : b \in Byte} \cup SeqsUpTo(HVBytes, MaxLen)

\* Bytes of the comparison harness: a visible byte, a letter, an opaque octet.
PairBytes == {32, 65, 200}

PairInputs == SeqsUpTo(PairBytes, MaxPairLen)

(***************************************************************************)
(* Rust's str type: a byte slice that is well-formed UTF-8.                *)
(***************************************************************************)
IsCont(b) == b >= 128 /\ b <= 191

\* Length of the well-formed UTF-8 sequence starting at s[i], or 0 if s[i..]
\* does not start with one (the table of well-formed byte sequences that
\* core::str::from_utf8 implements).
Utf8Width(s, i) ==
    LET b == s[i]
        n == Len(s)
        c(k, lo, hi) == i + k <= n /\ s[i + k] >= lo /\ s[i + k] <= hi
    IN  IF b < 128 THEN 1
        ELSE IF b >= 194 /\ b <= 223 THEN (IF c(1, 128, 191) THEN 2 ELSE 0)
        ELSE IF b = 224 THEN (IF c(1, 160, 191) /\ c(2, 128, 191) THEN 3 ELSE 0)
        ELSE IF (b >= 225 /\ b <= 236) \/ b = 238 \/ b = 239
             THEN (IF c(1, 128, 191) /\ c(2, 128, 191) THEN 3 ELSE 0)
        ELSE IF b = 237 THEN (IF c(1, 128, 159) /\ c(2, 128, 191) THEN 3 ELSE 0)
        ELSE IF b = 240
             THEN (IF c(1, 144, 191) /\ c(2, 128, 191) /\ c(3, 128, 191) THEN 4 ELSE 0)
        ELSE IF b >= 241 /\ b <= 243
             THEN (IF c(1, 128, 191) /\ c(2, 128, 191) /\ c(3, 128, 191) THEN 4 ELSE 0)
        ELSE IF b = 244
             THEN (IF c(1, 128, 143) /\ c(2, 128, 191) /\ c(3, 128, 191) THEN 4 ELSE 0)
        ELSE 0

RECURSIVE Utf8From(_, _)
Utf8From(s, i) ==
    IF i > Len(s) THEN TRUE
    ELSE LET w == Utf8Width(s, i)
         IN  IF w = 0 THEN FALSE ELSE Utf8From(s, i + w)

\* str::from_utf8(s).is_ok()
str_from_utf8(s) == Utf8From(s, 1)

\* The values of type &str among a set of byte slices.
StrOf(S) == {s \in S : str_from_utf8(s)}

\* The HeaderValue inputs of type &str.
HVStrs == StrOf(HVInputs)

\* The inputs of the comparison harness that are text.
PairStrs == StrOf(PairInputs)

(***************************************************************************)
(* Results and the call record.                                            *)
(***************************************************************************)
NoCall == [op |-> "none", arg |-> <<>>, res |-> "-", out |-> <<>>]

Called(op, arg, res, out) == [op |-> op, arg |-> arg, res |-> res, out |-> out]

\* No call has been made yet: the next call is a constructor's.
Fresh == call.op = "none"

\* u8 arithmetic: u8::wrapping_sub.
wrapping_sub(x, y) == (x - y + 256) % 256

(***************************************************************************)
(* The values.  `some` is FALSE for a slot that holds no value.            *)
(***************************************************************************)
\* struct HeaderValue { inner: Bytes, is_sensitive: bool }
NoValue == [some |-> FALSE, inner |-> <<>>, is_sensitive |-> FALSE]

HeaderValue(inner, is_sensitive) ==
    [some |-> TRUE, inner |-> inner, is_sensitive |-> is_sensitive]

\* struct StatusCode(NonZeroU16)
NoStatus == [some |-> FALSE, code |-> 0]

StatusCode(n) == [some |-> TRUE, code |-> n]

\* struct ByteStr { bytes: Bytes }
NoByteStr == [some |-> FALSE, bytes |-> <<>>]

ByteStr(bytes) == [some |-> TRUE, bytes |-> bytes]

\* struct Method(Inner): one of the nine unit variants, or
\* ExtensionInline(InlineExtension([u8; MAX], u8)), or
\* ExtensionAllocated(AllocatedExtension(Vec<u8>)).
NoMethod == [some |-> FALSE, tag |-> "-", data |-> <<>>, len |-> 0]

Standard(tag) == [some |-> TRUE, tag |-> tag, data |-> <<>>, len |-> 0]

ExtensionInline(data, len) ==
    [some |-> TRUE, tag |-> "ExtensionInline", data |-> data, len |-> len]

ExtensionAllocated(data) ==
    [some |-> TRUE, tag |-> "ExtensionAllocated", data |-> data, len |-> Len(data)]

\* struct Parts { scheme, authority, path_and_query: Option<..> } inside
\* Builder's Result<Parts, Error>: ok with the three parts (0 is None), or
\* an error.
NoError == <<>>

PartsOk(scheme, authority, path_and_query) ==
    [ok |-> TRUE, scheme |-> scheme, authority |-> authority,
     path_and_query |-> path_and_query, err |-> NoError]

PartsErr(e) ==
    [ok |-> FALSE, scheme |-> 0, authority |-> 0, path_and_query |-> 0, err |-> e]

\* struct Builder { parts: Result<Parts, crate::Error> }
NoBuilder == [some |-> FALSE, parts |-> PartsErr(NoError)]

Builder(parts) == [some |-> TRUE, parts |-> parts]

\* Header names the fuzz test draws: "te" and "age".
FuzzNames == {<<116, 101>>, <<97, 103, 101>>}

\* struct AltMap { map: HashMap<HeaderName, Vec<HeaderValue>> }: for each
\* name whether it is a key, and its values.
AltMap_default == [n \in FuzzNames |-> [present |-> FALSE, vals |-> <<>>]]

\* The state before any call: no value has been built.
Init ==
    /\ call = NoCall
    /\ val = NoValue
    /\ other = NoValue
    /\ method = NoMethod
    /\ status = NoStatus
    /\ bstr = NoByteStr
    /\ builder = NoBuilder
    /\ chain = <<>>
    /\ hmap = <<>>
    /\ alt = AltMap_default

(***************************************************************************)
(* StatusCode (src/src/status.rs).                                         *)
(***************************************************************************)
\* The arguments of type u16.
U16 == 0..65535

\* NonZeroU16::new(n).map(StatusCode).ok_or_else(InvalidStatusCode::new)
NonZeroU16_new(n) ==
    IF n = 0
    THEN [res |-> "Err", value |-> NoStatus]
    ELSE [res |-> "Ok", value |-> StatusCode(n)]

\* A range check that lets 1000 through: (100..=1000).contains(&src).
from_u16_inclusive(src) ==
    IF ~(100 <= src /\ src <= 1000)
    THEN [res |-> "Err", value |-> NoStatus]
    ELSE NonZeroU16_new(src)

\* from_u16(src): if !(100..1000).contains(&src) { return Err(..) }
StatusCode_from_u16(src) ==
    IF ~(100 <= src /\ src < 1000)
    THEN [res |-> "Err", value |-> NoStatus]
    ELSE NonZeroU16_new(src)

\* A digit parse with saturating_sub: a byte below b'0' counts as digit 0.
from_bytes_saturating(src) ==
    IF Len(src) # 3
    THEN [res |-> "Err", value |-> NoStatus]
    ELSE LET sub(x) == IF x < 48 THEN 0 ELSE x - 48
             a == sub(src[1])
             b == sub(src[2])
             c == sub(src[3])
         IN  IF a = 0 \/ a > 9 \/ b > 9 \/ c > 9
             THEN [res |-> "Err", value |-> NoStatus]
             ELSE NonZeroU16_new(((a * 100) + (b * 10) + c) % 65536)

\* A digit parse without the a == 0 test: only "000" is then refused.
from_bytes_leading_zero(src) ==
    IF Len(src) # 3
    THEN [res |-> "Err", value |-> NoStatus]
    ELSE LET a == wrapping_sub(src[1], 48)
             b == wrapping_sub(src[2], 48)
             c == wrapping_sub(src[3], 48)
         IN  IF a > 9 \/ b > 9 \/ c > 9
             THEN [res |-> "Err", value |-> NoStatus]
             ELSE NonZeroU16_new(((a * 100) + (b * 10) + c) % 65536)

\* from_bytes(src): three bytes, each minus b'0' (wrapping, in u8) widened
\* to u16; a == 0 || a > 9 || b > 9 || c > 9 is an error.
StatusCode_from_bytes(src) ==
    IF Len(src) # 3
    THEN [res |-> "Err", value |-> NoStatus]
    ELSE LET a == wrapping_sub(src[1], 48)
             b == wrapping_sub(src[2], 48)
             c == wrapping_sub(src[3], 48)
         IN  IF a = 0 \/ a > 9 \/ b > 9 \/ c > 9
             THEN [res |-> "Err", value |-> NoStatus]
             ELSE NonZeroU16_new(((a * 100) + (b * 10) + c) % 65536)

\* impl FromStr / TryFrom<&str>: Self::from_bytes(s.as_ref())
StatusCode_from_str(s) == StatusCode_from_bytes(s)

\* as_u16(&self): self.0.get()
StatusCode_as_u16(s) == s.code

\* The numbers of the status_codes! invocation, each built by
\* StatusCode(NonZeroU16::new_unchecked($num)).
STATUS_CODES ==
    {100, 101, 102,
     200, 201, 202, 203, 204, 205, 206, 207, 208, 226,
     300, 301, 302, 303, 304, 305, 307, 308,
     400, 401, 402, 403, 404, 405, 406, 407, 408, 409, 410, 411, 412, 413,
     414, 415, 416, 417, 418, 421, 422, 423, 424, 425, 426, 428, 429, 431,
     451,
     500, 501, 502, 503, 504, 505, 506, 507, 508, 510, 511}

\* pub const OK: StatusCode
StatusCode_OK == StatusCode(200)

\* const fn new() -> Self { Self::OK }; Default::default() is Self::new().
StatusCode_new == StatusCode_OK

\* The 900 packed three-digit codes.
CODE_DIGITS ==
    <<49, 48, 48, 49, 48, 49, 49, 48, 50, 49, 48, 51, 49, 48, 52, 49, 48, 53, 49, 48, 54, 49, 48, 55, 49, 48, 56, 49, 48, 57,
       49, 49, 48, 49, 49, 49, 49, 49, 50, 49, 49, 51, 49, 49, 52, 49, 49, 53, 49, 49, 54, 49, 49, 55, 49, 49, 56, 49, 49, 57,
       49, 50, 48, 49, 50, 49, 49, 50, 50, 49, 50, 51, 49, 50, 52, 49, 50, 53, 49, 50, 54, 49, 50, 55, 49, 50, 56, 49, 50, 57,
       49, 51, 48, 49, 51, 49, 49, 51, 50, 49, 51, 51, 49, 51, 52, 49, 51, 53, 49, 51, 54, 49, 51, 55, 49, 51, 56, 49, 51, 57,
       49, 52, 48, 49, 52, 49, 49, 52, 50, 49, 52, 51, 49, 52, 52, 49, 52, 53, 49, 52, 54, 49, 52, 55, 49, 52, 56, 49, 52, 57,
       49, 53, 48, 49, 53, 49, 49, 53, 50, 49, 53, 51, 49, 53, 52, 49, 53, 53, 49, 53, 54, 49, 53, 55, 49, 53, 56, 49, 53, 57,
       49, 54, 48, 49, 54, 49, 49, 54, 50, 49, 54, 51, 49, 54, 52, 49, 54, 53, 49, 54, 54, 49, 54, 55, 49, 54, 56, 49, 54, 57,
       49, 55, 48, 49, 55, 49, 49, 55, 50, 49, 55, 51, 49, 55, 52, 49, 55, 53, 49, 55, 54, 49, 55, 55, 49, 55, 56, 49, 55, 57,
       49, 56, 48, 49, 56, 49, 49, 56, 50, 49, 56, 51, 49, 56, 52, 49, 56, 53, 49, 56, 54, 49, 56, 55, 49, 56, 56, 49, 56, 57,
       49, 57, 48, 49, 57, 49, 49, 57, 50, 49, 57, 51, 49, 57, 52, 49, 57, 53, 49, 57, 54, 49, 57, 55, 49, 57, 56, 49, 57, 57,
       50, 48, 48, 50, 48, 49, 50, 48, 50, 50, 48, 51, 50, 48, 52, 50, 48, 53, 50, 48, 54, 50, 48, 55, 50, 48, 56, 50, 48, 57,
       50, 49, 48, 50, 49, 49, 50, 49, 50, 50, 49, 51, 50, 49, 52, 50, 49, 53, 50, 49, 54, 50, 49, 55, 50, 49, 56, 50, 49, 57,
       50, 50, 48, 50, 50, 49, 50, 50, 50, 50, 50, 51, 50, 50, 52, 50, 50, 53, 50, 50, 54, 50, 50, 55, 50, 50, 56, 50, 50, 57,
       50, 51, 48, 50, 51, 49, 50, 51, 50, 50, 51, 51, 50, 51, 52, 50, 51, 53, 50, 51, 54, 50, 51, 55, 50, 51, 56, 50, 51, 57,
       50, 52, 48, 50, 52, 49, 50, 52, 50, 50, 52, 51, 50, 52, 52, 50, 52, 53, 50, 52, 54, 50, 52, 55, 50, 52, 56, 50, 52, 57,
       50, 53, 48, 50, 53, 49, 50, 53, 50, 50, 53, 51, 50, 53, 52, 50, 53, 53, 50, 53, 54, 50, 53, 55, 50, 53, 56, 50, 53, 57,
       50, 54, 48, 50, 54, 49, 50, 54, 50, 50, 54, 51, 50, 54, 52, 50, 54, 53, 50, 54, 54, 50, 54, 55, 50, 54, 56, 50, 54, 57,
       50, 55, 48, 50, 55, 49, 50, 55, 50, 50, 55, 51, 50, 55, 52, 50, 55, 53, 50, 55, 54, 50, 55, 55, 50, 55, 56, 50, 55, 57,
       50, 56, 48, 50, 56, 49, 50, 56, 50, 50, 56, 51, 50, 56, 52, 50, 56, 53, 50, 56, 54, 50, 56, 55, 50, 56, 56, 50, 56, 57,
       50, 57, 48, 50, 57, 49, 50, 57, 50, 50, 57, 51, 50, 57, 52, 50, 57, 53, 50, 57, 54, 50, 57, 55, 50, 57, 56, 50, 57, 57,
       51, 48, 48, 51, 48, 49, 51, 48, 50, 51, 48, 51, 51, 48, 52, 51, 48, 53, 51, 48, 54, 51, 48, 55, 51, 48, 56, 51, 48, 57,
       51, 49, 48, 51, 49, 49, 51, 49, 50, 51, 49, 51, 51, 49, 52, 51, 49, 53, 51, 49, 54, 51, 49, 55, 51, 49, 56, 51, 49, 57,
       51, 50, 48, 51, 50, 49, 51, 50, 50, 51, 50, 51, 51, 50, 52, 51, 50, 53, 51, 50, 54, 51, 50, 55, 51, 50, 56, 51, 50, 57,
       51, 51, 48, 51, 51, 49, 51, 51, 50, 51, 51, 51, 51, 51, 52, 51, 51, 53, 51, 51, 54, 51, 51, 55, 51, 51, 56, 51, 51, 57,
       51, 52, 48, 51, 52, 49, 51, 52, 50, 51, 52, 51, 51, 52, 52, 51, 52, 53, 51, 52, 54, 51, 52, 55, 51, 52, 56, 51, 52, 57,
       51, 53, 48, 51, 53, 49, 51, 53, 50, 51, 53, 51, 51, 53, 52, 51, 53, 53, 51, 53, 54, 51, 53, 55, 51, 53, 56, 51, 53, 57,
       51, 54, 48, 51, 54, 49, 51, 54, 50, 51, 54, 51, 51, 54, 52, 51, 54, 53, 51, 54, 54, 51, 54, 55, 51, 54, 56, 51, 54, 57,
       51, 55, 48, 51, 55, 49, 51, 55, 50, 51, 55, 51, 51, 55, 52, 51, 55, 53, 51, 55, 54, 51, 55, 55, 51, 55, 56, 51, 55, 57,
       51, 56, 48, 51, 56, 49, 51, 56, 50, 51, 56, 51, 51, 56, 52, 51, 56, 53, 51, 56, 54, 51, 56, 55, 51, 56, 56, 51, 56, 57,
       51, 57, 48, 51, 57, 49, 51, 57, 50, 51, 57, 51, 51, 57, 52, 51, 57, 53, 51, 57, 54, 51, 57, 55, 51, 57, 56, 51, 57, 57,
       52, 48, 48, 52, 48, 49, 52, 48, 50, 52, 48, 51, 52, 48, 52, 52, 48, 53, 52, 48, 54, 52, 48, 55, 52, 48, 56, 52, 48, 57,
       52, 49, 48, 52, 49, 49, 52, 49, 50, 52, 49, 51, 52, 49, 52, 52, 49, 53, 52, 49, 54, 52, 49, 55, 52, 49, 56, 52, 49, 57,
       52, 50, 48, 52, 50, 49, 52, 50, 50, 52, 50, 51, 52, 50, 52, 52, 50, 53, 52, 50, 54, 52, 50, 55, 52, 50, 56, 52, 50, 57,
       52, 51, 48, 52, 51, 49, 52, 51, 50, 52, 51, 51, 52, 51, 52, 52, 51, 53, 52, 51, 54, 52, 51, 55, 52, 51, 56, 52, 51, 57,
       52, 52, 48, 52, 52, 49, 52, 52, 50, 52, 52, 51, 52, 52, 52, 52, 52, 53, 52, 52, 54, 52, 52, 55, 52, 52, 56, 52, 52, 57,
       52, 53, 48, 52, 53, 49, 52, 53, 50, 52, 53, 51, 52, 53, 52, 52, 53, 53, 52, 53, 54, 52, 53, 55, 52, 53, 56, 52, 53, 57,
       52, 54, 48, 52, 54, 49, 52, 54, 50, 52, 54, 51, 52, 54, 52, 52, 54, 53, 52, 54, 54, 52, 54, 55, 52, 54, 56, 52, 54, 57,
       52, 55, 48, 52, 55, 49, 52, 55, 50, 52, 55, 51, 52, 55, 52, 52, 55, 53, 52, 55, 54, 52, 55, 55, 52, 55, 56, 52, 55, 57,
       52, 56, 48, 52, 56, 49, 52, 56, 50, 52, 56, 51, 52, 56, 52, 52, 56, 53, 52, 56, 54, 52, 56, 55, 52, 56, 56, 52, 56, 57,
       52, 57, 48, 52, 57, 49, 52, 57, 50, 52, 57, 51, 52, 57, 52, 52, 57, 53, 52, 57, 54, 52, 57, 55, 52, 57, 56, 52, 57, 57,
       53, 48, 48, 53, 48, 49, 53, 48, 50, 53, 48, 51, 53, 48, 52, 53, 48, 53, 53, 48, 54, 53, 48, 55, 53, 48, 56, 53, 48, 57,
       53, 49, 48, 53, 49, 49, 53, 49, 50, 53, 49, 51, 53, 49, 52, 53, 49, 53, 53, 49, 54, 53, 49, 55, 53, 49, 56, 53, 49, 57,
       53, 50, 48, 53, 50, 49, 53, 50, 50, 53, 50, 51, 53, 50, 52, 53, 50, 53, 53, 50, 54, 53, 50, 55, 53, 50, 56, 53, 50, 57,
       53, 51, 48, 53, 51, 49, 53, 51, 50, 53, 51, 51, 53, 51, 52, 53, 51, 53, 53, 51, 54, 53, 51, 55, 53, 51, 56, 53, 51, 57,
       53, 52, 48, 53, 52, 49, 53, 52, 50, 53, 52, 51, 53, 52, 52, 53, 52, 53, 53, 52, 54, 53, 52, 55, 53, 52, 56, 53, 52, 57,
       53, 53, 48, 53, 53, 49, 53, 53, 50, 53, 53, 51, 53, 53, 52, 53, 53, 53, 53, 53, 54, 53, 53, 55, 53, 53, 56, 53, 53, 57,
       53, 54, 48, 53, 54, 49, 53, 54, 50, 53, 54, 51, 53, 54, 52, 53, 54, 53, 53, 54, 54, 53, 54, 55, 53, 54, 56, 53, 54, 57,
       53, 55, 48, 53, 55, 49, 53, 55, 50, 53, 55, 51, 53, 55, 52, 53, 55, 53, 53, 55, 54, 53, 55, 55, 53, 55, 56, 53, 55, 57,
       53, 56, 48, 53, 56, 49, 53, 56, 50, 53, 56, 51, 53, 56, 52, 53, 56, 53, 53, 56, 54, 53, 56, 55, 53, 56, 56, 53, 56, 57,
       53, 57, 48, 53, 57, 49, 53, 57, 50, 53, 57, 51, 53, 57, 52, 53, 57, 53, 53, 57, 54, 53, 57, 55, 53, 57, 56, 53, 57, 57,
       54, 48, 48, 54, 48, 49, 54, 48, 50, 54, 48, 51, 54, 48, 52, 54, 48, 53, 54, 48, 54, 54, 48, 55, 54, 48, 56, 54, 48, 57,
       54, 49, 48, 54, 49, 49, 54, 49, 50, 54, 49, 51, 54, 49, 52, 54, 49, 53, 54, 49, 54, 54, 49, 55, 54, 49, 56, 54, 49, 57,
       54, 50, 48, 54, 50, 49, 54, 50, 50, 54, 50, 51, 54, 50, 52, 54, 50, 53, 54, 50, 54, 54, 50, 55, 54, 50, 56, 54, 50, 57,
       54, 51, 48, 54, 51, 49, 54, 51, 50, 54, 51, 51, 54, 51, 52, 54, 51, 53, 54, 51, 54, 54, 51, 55, 54, 51, 56, 54, 51, 57,
       54, 52, 48, 54, 52, 49, 54, 52, 50, 54, 52, 51, 54, 52, 52, 54, 52, 53, 54, 52, 54, 54, 52, 55, 54, 52, 56, 54, 52, 57,
       54, 53, 48, 54, 53, 49, 54, 53, 50, 54, 53, 51, 54, 53, 52, 54, 53, 53, 54, 53, 54, 54, 53, 55, 54, 53, 56, 54, 53, 57,
       54, 54, 48, 54, 54, 49, 54, 54, 50, 54, 54, 51, 54, 54, 52, 54, 54, 53, 54, 54, 54, 54, 54, 55, 54, 54, 56, 54, 54, 57,
       54, 55, 48, 54, 55, 49, 54, 55, 50, 54, 55, 51, 54, 55, 52, 54, 55, 53, 54, 55, 54, 54, 55, 55, 54, 55, 56, 54, 55, 57,
       54, 56, 48, 54, 56, 49, 54, 56, 50, 54, 56, 51, 54, 56, 52, 54, 56, 53, 54, 56, 54, 54, 56, 55, 54, 56, 56, 54, 56, 57,
       54, 57, 48, 54, 57, 49, 54, 57, 50, 54, 57, 51, 54, 57, 52, 54, 57, 53, 54, 57, 54, 54, 57, 55, 54, 57, 56, 54, 57, 57,
       55, 48, 48, 55, 48, 49, 55, 48, 50, 55, 48, 51, 55, 48, 52, 55, 48, 53, 55, 48, 54, 55, 48, 55, 55, 48, 56, 55, 48, 57,
       55, 49, 48, 55, 49, 49, 55, 49, 50, 55, 49, 51, 55, 49, 52, 55, 49, 53, 55, 49, 54, 55, 49, 55, 55, 49, 56, 55, 49, 57,
       55, 50, 48, 55, 50, 49, 55, 50, 50, 55, 50, 51, 55, 50, 52, 55, 50, 53, 55, 50, 54, 55, 50, 55, 55, 50, 56, 55, 50, 57,
       55, 51, 48, 55, 51, 49, 55, 51, 50, 55, 51, 51, 55, 51, 52, 55, 51, 53, 55, 51, 54, 55, 51, 55, 55, 51, 56, 55, 51, 57,
       55, 52, 48, 55, 52, 49, 55, 52, 50, 55, 52, 51, 55, 52, 52, 55, 52, 53, 55, 52, 54, 55, 52, 55, 55, 52, 56, 55, 52, 57,
       55, 53, 48, 55, 53, 49, 55, 53, 50, 55, 53, 51, 55, 53, 52, 55, 53, 53, 55, 53, 54, 55, 53, 55, 55, 53, 56, 55, 53, 57,
       55, 54, 48, 55, 54, 49, 55, 54, 50, 55, 54, 51, 55, 54, 52, 55, 54, 53, 55, 54, 54, 55, 54, 55, 55, 54, 56, 55, 54, 57,
       55, 55, 48, 55, 55, 49, 55, 55, 50, 55, 55, 51, 55, 55, 52, 55, 55, 53, 55, 55, 54, 55, 55, 55, 55, 55, 56, 55, 55, 57,
       55, 56, 48, 55, 56, 49, 55, 56, 50, 55, 56, 51, 55, 56, 52, 55, 56, 53, 55, 56, 54, 55, 56, 55, 55, 56, 56, 55, 56, 57,
       55, 57, 48, 55, 57, 49, 55, 57, 50, 55, 57, 51, 55, 57, 52, 55, 57, 53, 55, 57, 54, 55, 57, 55, 55, 57, 56, 55, 57, 57,
       56, 48, 48, 56, 48, 49, 56, 48, 50, 56, 48, 51, 56, 48, 52, 56, 48, 53, 56, 48, 54, 56, 48, 55, 56, 48, 56, 56, 48, 57,
       56, 49, 48, 56, 49, 49, 56, 49, 50, 56, 49, 51, 56, 49, 52, 56, 49, 53, 56, 49, 54, 56, 49, 55, 56, 49, 56, 56, 49, 57,
       56, 50, 48, 56, 50, 49, 56, 50, 50, 56, 50, 51, 56, 50, 52, 56, 50, 53, 56, 50, 54, 56, 50, 55, 56, 50, 56, 56, 50, 57,
       56, 51, 48, 56, 51, 49, 56, 51, 50, 56, 51, 51, 56, 51, 52, 56, 51, 53, 56, 51, 54, 56, 51, 55, 56, 51, 56, 56, 51, 57,
       56, 52, 48, 56, 52, 49, 56, 52, 50, 56, 52, 51, 56, 52, 52, 56, 52, 53, 56, 52, 54, 56, 52, 55, 56, 52, 56, 56, 52, 57,
       56, 53, 48, 56, 53, 49, 56, 53, 50, 56, 53, 51, 56, 53, 52, 56, 53, 53, 56, 53, 54, 56, 53, 55, 56, 53, 56, 56, 53, 57,
       56, 54, 48, 56, 54, 49, 56, 54, 50, 56, 54, 51, 56, 54, 52, 56, 54, 53, 56, 54, 54, 56, 54, 55, 56, 54, 56, 56, 54, 57,
       56, 55, 48, 56, 55, 49, 56, 55, 50, 56, 55, 51, 56, 55, 52, 56, 55, 53, 56, 55, 54, 56, 55, 55, 56, 55, 56, 56, 55, 57,
       56, 56, 48, 56, 56, 49, 56, 56, 50, 56, 56, 51, 56, 56, 52, 56, 56, 53, 56, 56, 54, 56, 56, 55, 56, 56, 56, 56, 56, 57,
       56, 57, 48, 56, 57, 49, 56, 57, 50, 56, 57, 51, 56, 57, 52, 56, 57, 53, 56, 57, 54, 56, 57, 55, 56, 57, 56, 56, 57, 57,
       57, 48, 48, 57, 48, 49, 57, 48, 50, 57, 48, 51, 57, 48, 52, 57, 48, 53, 57, 48, 54, 57, 48, 55, 57, 48, 56, 57, 48, 57,
       57, 49, 48, 57, 49, 49, 57, 49, 50, 57, 49, 51, 57, 49, 52, 57, 49, 53, 57, 49, 54, 57, 49, 55, 57, 49, 56, 57, 49, 57,
       57, 50, 48, 57, 50, 49, 57, 50, 50, 57, 50, 51, 57, 50, 52, 57, 50, 53, 57, 50, 54, 57, 50, 55, 57, 50, 56, 57, 50, 57,
       57, 51, 48, 57, 51, 49, 57, 51, 50, 57, 51, 51, 57, 51, 52, 57, 51, 53, 57, 51, 54, 57, 51, 55, 57, 51, 56, 57, 51, 57,
       57, 52, 48, 57, 52, 49, 57, 52, 50, 57, 52, 51, 57, 52, 52, 57, 52, 53, 57, 52, 54, 57, 52, 55, 57, 52, 56, 57, 52, 57,
       57, 53, 48, 57, 53, 49, 57, 53, 50, 57, 53, 51, 57, 53, 52, 57, 53, 53, 57, 53, 54, 57, 53, 55, 57, 53, 56, 57, 53, 57,
       57, 54, 48, 57, 54, 49, 57, 54, 50, 57, 54, 51, 57, 54, 52, 57, 54, 53, 57, 54, 54, 57, 54, 55, 57, 54, 56, 57, 54, 57,
       57, 55, 48, 57, 55, 49, 57, 55, 50, 57, 55, 51, 57, 55, 52, 57, 55, 53, 57, 55, 54, 57, 55, 55, 57, 55, 56, 57, 55, 57,
       57, 56, 48, 57, 56, 49, 57, 56, 50, 57, 56, 51, 57, 56, 52, 57, 56, 53, 57, 56, 54, 57, 56, 55, 57, 56, 56, 57, 56, 57,
       57, 57, 48, 57, 57, 49, 57, 57, 50, 57, 57, 51, 57, 57, 52, 57, 57, 53, 57, 57, 54, 57, 57, 55, 57, 57, 56, 57, 57, 57>>

\* An as_str that indexes the table by the code itself.
as_str_from_zero(s) ==
    LET offset == s.code * 3
    IN  IF offset + 3 > Len(CODE_DIGITS)
        THEN [res |-> "Panic", text |-> <<>>]
        ELSE [res |-> "Ok", text |-> SubSeq(CODE_DIGITS, offset + 1, offset + 3)]

\* as_str(&self): offset = (self.0.get() - 100) as usize * 3 (the u16
\* subtraction overflows below 100: a panic in a checked build), then the
\* slice CODE_DIGITS[offset..offset + 3], a panic when out of range.
StatusCode_as_str(s) ==
    IF s.code < 100 THEN [res |-> "Panic", text |-> <<>>]
    ELSE LET offset == (s.code - 100) * 3
         IN  IF offset + 3 > Len(CODE_DIGITS)
             THEN [res |-> "Panic", text |-> <<>>]
             ELSE [res |-> "Ok", text |-> SubSeq(CODE_DIGITS, offset + 1, offset + 3)]

\* is_informational .. is_server_error: (lo..hi).contains(&self.0.get())
is_informational(s) == 100 <= s.code /\ s.code < 200
is_success(s) == 200 <= s.code /\ s.code < 300
is_redirection(s) == 300 <= s.code /\ s.code < 400
is_client_error(s) == 400 <= s.code /\ s.code < 500
\* An is_server_error without the upper end: 500 and above.
is_server_error_open(s) == 500 <= s.code
is_server_error(s) == 500 <= s.code /\ s.code < 600

\* The five classifications, in the order above.
Classes(s) ==
    <<is_informational(s), is_success(s), is_redirection(s),
      is_client_error(s), is_server_error(s)>>

\* Bytes around the digits: space, '+', '/', '0', '1', '2', '9', ':', 255.
StatusBytes == {32, 43, 47, 48, 49, 50, 57, 58, 255}

StatusInputs == SeqsUpTo(StatusBytes, MaxStatusLen)

\* The inputs of type &str.
StatusStrs == StrOf(StatusInputs)

\* ---- operations ----

StatusFromU16(n) ==
    /\ Fresh
    /\ LET r == StatusCode_from_u16(n)
       IN  /\ call' = Called("from_u16", n, r.res, <<>>)
           /\ status' = r.value
    /\ UNCHANGED <<val, other, method, bstr, builder, chain, hmap, alt>>

\* impl TryFrom<u16>: Self::from_u16(t)
StatusTryFromU16(n) ==
    /\ Fresh
    /\ LET r == StatusCode_from_u16(n)
       IN  /\ call' = Called("try_from_u16", n, r.res, <<>>)
           /\ status' = r.value
    /\ UNCHANGED <<val, other, method, bstr, builder, chain, hmap, alt>>

\* from_bytes, also reached as TryFrom<&[u8]>.
StatusFromBytes(src) ==
    /\ Fresh
    /\ LET r == StatusCode_from_bytes(src)
       IN  /\ call' = Called("from_bytes", src, r.res, <<>>)
           /\ status' = r.value
    /\ UNCHANGED <<val, other, method, bstr, builder, chain, hmap, alt>>

\* FromStr, also reached as TryFrom<&str> (t.parse()).
StatusFromStr(s) ==
    /\ Fresh
    /\ LET r == StatusCode_from_str(s)
       IN  /\ call' = Called("from_str", s, r.res, <<>>)
           /\ status' = r.value
    /\ UNCHANGED <<val, other, method, bstr, builder, chain, hmap, alt>>

\* StatusCode::new() and Default::default().
StatusNew ==
    /\ Fresh
    /\ call' = Called("new", <<>>, "Ok", <<>>)
    /\ status' = StatusCode_new
    /\ UNCHANGED <<val, other, method, bstr, builder, chain, hmap, alt>>

\* One of the associated constants.
StatusConst(n) ==
    /\ Fresh
    /\ call' = Called("const", n, "Ok", <<>>)
    /\ status' = StatusCode(n)
    /\ UNCHANGED <<val, other, method, bstr, builder, chain, hmap, alt>>

StatusAsU16 ==
    /\ status.some
    /\ call' = Called("as_u16", <<>>, "Ok", StatusCode_as_u16(status))
    /\ UNCHANGED <<status, val, other, method, bstr, builder, chain, hmap, alt>>

StatusAsStr ==
    /\ status.some
    /\ LET r == StatusCode_as_str(status)
       IN  call' = Called("as_str", <<>>, r.res, r.text)
    /\ UNCHANGED <<status, val, other, method, bstr, builder, chain, hmap, alt>>

\* The five is_* predicates, called together.
StatusClassify ==
    /\ status.some
    /\ call' = Called("classify", <<>>, "Ok", Classes(status))
    /\ UNCHANGED <<status, val, other, method, bstr, builder, chain, hmap, alt>>

StatusNext ==
    \/ Fresh /\ \E n \in U16 : StatusFromU16(n)
    \/ Fresh /\ \E n \in U16 : StatusTryFromU16(n)
    \/ Fresh /\ \E src \in StatusInputs : StatusFromBytes(src)
    \/ Fresh /\ \E s \in StatusStrs : StatusFromStr(s)
    \/ StatusNew
    \/ Fresh /\ \E n \in STATUS_CODES : StatusConst(n)
    \/ StatusAsU16
    \/ StatusAsStr
    \/ StatusClassify

SpecStatus == Init /\ [][StatusNext]_vars

(***************************************************************************)
(* Method (src/src/method.rs).                                             *)
(***************************************************************************)
\* InlineExtension::MAX
InlineExtension_MAX == 15

\* const METHOD_CHARS: [u8; 256], indexed from 1 here.
METHOD_CHARS ==
    <<0,   0,   0,   0,   0,   0,   0,   0,   0,   0,   0,   0,   0,   0,   0,   0,
         0,   0,   0,   0,   0,   0,   0,   0,   0,   0,   0,   0,   0,   0,   0,   0,
         0,  33,   0,  35,  36,  37,  38,  39,   0,   0,  42,  43,   0,  45,  46,   0,
        48,  49,  50,  51,  52,  53,  54,  55,  56,  57,   0,   0,   0,   0,   0,   0,
         0,  65,  66,  67,  68,  69,  70,  71,  72,  73,  74,  75,  76,  77,  78,  79,
        80,  81,  82,  83,  84,  85,  86,  87,  88,  89,  90,   0,   0,   0,  94,  95,
        96,  97,  98,  99, 100, 101, 102, 103, 104, 105, 106, 107, 108, 109, 110, 111,
       112, 113, 114, 115, 116, 117, 118, 119, 120, 121, 122,   0, 124,   0, 126,   0,
         0,   0,   0,   0,   0,   0,   0,   0,   0,   0,   0,   0,   0,   0,   0,   0,
         0,   0,   0,   0,   0,   0,   0,   0,   0,   0,   0,   0,   0,   0,   0,   0,
         0,   0,   0,   0,   0,   0,   0,   0,   0,   0,   0,   0,   0,   0,   0,   0,
         0,   0,   0,   0,   0,   0,   0,   0,   0,   0,   0,   0,   0,   0,   0,   0,
         0,   0,   0,   0,   0,   0,   0,   0,   0,   0,   0,   0,   0,   0,   0,   0,
         0,   0,   0,   0,   0,   0,   0,   0,   0,   0,   0,   0,   0,   0,   0,   0,
         0,   0,   0,   0,   0,   0,   0,   0,   0,   0,   0,   0,   0,   0,   0,   0,
         0,   0,   0,   0,   0,   0,   0,   0,   0,   0,   0,   0,   0,   0,   0,   0>>

\* The nine standard verbs as byte strings.
GET == <<71, 69, 84>>
PUT == <<80, 85, 84>>
POST == <<80, 79, 83, 84>>
HEAD == <<72, 69, 65, 68>>
PATCH == <<80, 65, 84, 67, 72>>
TRACE == <<84, 82, 65, 67, 69>>
DELETE == <<68, 69, 76, 69, 84, 69>>
OPTIONS == <<79, 80, 84, 73, 79, 78, 83>>
CONNECT == <<67, 79, 78, 78, 69, 67, 84>>

\* write_checked(src, dst): for (i, &b) in src.iter().enumerate() {
\*   let b = METHOD_CHARS[b as usize]; if b == 0 { return Err(..) }
\*   dst[i] = b; }   -- dst[i] panics when i is past the end of dst.
RECURSIVE write_checked_from(_, _, _)
write_checked_from(src, dst, i) ==
    IF i > Len(src) THEN [res |-> "Ok", dst |-> dst]
    ELSE LET b == METHOD_CHARS[src[i] + 1]
         IN  IF b = 0 THEN [res |-> "Err", dst |-> dst]
             ELSE IF i > Len(dst) THEN [res |-> "Panic", dst |-> dst]
             ELSE write_checked_from(src, [dst EXCEPT ![i] = b], i + 1)

write_checked(src, dst) == write_checked_from(src, dst, 1)

\* InlineExtension::new(src): data = [0; MAX]; write_checked(src, &mut data)?;
\* Ok(Self(data, src.len() as u8))
\* The field ctor of a result names the extension constructor that ran.
InlineExtension_new(src) ==
    LET r == write_checked(src, [i \in 1..InlineExtension_MAX |-> 0])
    IN  IF r.res = "Ok"
        THEN [res |-> "Ok", value |-> ExtensionInline(r.dst, Len(src) % 256),
              ctor |-> "InlineExtension"]
        ELSE [res |-> r.res, value |-> NoMethod, ctor |-> "InlineExtension"]

\* AllocatedExtension::new(src): data = vec![0; src.len()];
\* write_checked(src, &mut data)?; Ok(Self(data))
AllocatedExtension_new(src) ==
    LET r == write_checked(src, [i \in 1..Len(src) |-> 0])
    IN  IF r.res = "Ok"
        THEN [res |-> "Ok", value |-> ExtensionAllocated(r.dst),
              ctor |-> "AllocatedExtension"]
        ELSE [res |-> r.res, value |-> NoMethod, ctor |-> "AllocatedExtension"]

\* extension_inline(src): Ok(Self(ExtensionInline(InlineExtension::new(src)?)))
extension_inline(src) == InlineExtension_new(src)

\* A last arm that keeps only tokens shorter than MAX inline.
from_bytes_long_strict(src) ==
    IF Len(src) < InlineExtension_MAX
    THEN extension_inline(src)
    ELSE AllocatedExtension_new(src)

\* A last arm that stores every token inline.
from_bytes_long_inline(src) == extension_inline(src)

\* The `_` arm: if src.len() <= InlineExtension::MAX, extension_inline(src),
\* else Ok(Self(ExtensionAllocated(AllocatedExtension::new(src)?))).
from_bytes_long(src) ==
    IF Len(src) <= InlineExtension_MAX
    THEN extension_inline(src)
    ELSE AllocatedExtension_new(src)

\* The length dispatch below the 0 arm.
from_bytes_by_len(src) ==
    LET n == Len(src)
        std(tag) == [res |-> "Ok", value |-> Standard(tag), ctor |-> "none"]
    IN  CASE n = 3 -> IF src = GET THEN std("Get")
                      ELSE IF src = PUT THEN std("Put")
                      ELSE extension_inline(src)
          [] n = 4 -> IF src = POST THEN std("Post")
                      ELSE IF src = HEAD THEN std("Head")
                      ELSE extension_inline(src)
          [] n = 5 -> IF src = PATCH THEN std("Patch")
                      ELSE IF src = TRACE THEN std("Trace")
                      ELSE extension_inline(src)
          [] n = 6 -> IF src = DELETE THEN std("Delete")
                      ELSE extension_inline(src)
          [] n = 7 -> IF src = OPTIONS THEN std("Options")
                      ELSE IF src = CONNECT THEN std("Connect")
                      ELSE extension_inline(src)
          [] OTHER -> from_bytes_long(src)

\* A from_bytes without the 0 arm: the empty slice falls to the last arm.
from_bytes_no_empty_arm(src) == from_bytes_by_len(src)

\* A from_bytes without the arms of the standard verbs.
from_bytes_no_fast_path(src) ==
    IF Len(src) = 0
    THEN [res |-> "Err", value |-> NoMethod, ctor |-> "none"]
    ELSE from_bytes_long(src)

\* Method::from_bytes(src): match src.len() { 0 => Err(..), 3 => .., .. }
Method_from_bytes(src) ==
    IF Len(src) = 0
    THEN [res |-> "Err", value |-> NoMethod, ctor |-> "none"]
    ELSE from_bytes_by_len(src)

\* impl FromStr / TryFrom<&str>: TryFrom::try_from(t.as_bytes())
Method_from_str(t) == Method_from_bytes(t)

\* An as_str that views the whole inline buffer.
inline_as_str_whole(m) == m.data

\* InlineExtension::as_str(&self): &data[..*len as usize]
InlineExtension_as_str(m) == SubSeq(m.data, 1, m.len)

\* AllocatedExtension::as_str(&self): &self.0
AllocatedExtension_as_str(m) == m.data

\* as_str(&self)
Method_as_str(m) ==
    CASE m.tag = "Options" -> OPTIONS
      [] m.tag = "Get" -> GET
      [] m.tag = "Post" -> POST
      [] m.tag = "Put" -> PUT
      [] m.tag = "Delete" -> DELETE
      [] m.tag = "Head" -> HEAD
      [] m.tag = "Trace" -> TRACE
      [] m.tag = "Connect" -> CONNECT
      [] m.tag = "Patch" -> PATCH
      [] m.tag = "ExtensionInline" -> InlineExtension_as_str(m)
      [] m.tag = "ExtensionAllocated" -> AllocatedExtension_as_str(m)

\* An is_safe that also takes POST for safe.
is_safe_with_post(m) == m.tag \in {"Get", "Head", "Options", "Trace", "Post"}

\* is_safe(&self): matches!(self.0, Get | Head | Options | Trace)
is_safe(m) == m.tag \in {"Get", "Head", "Options", "Trace"}

\* is_idempotent(&self): Put | Delete => true, _ => self.is_safe()
is_idempotent(m) == IF m.tag \in {"Put", "Delete"} THEN TRUE ELSE is_safe(m)

\* An equality that compares the variants only.
eq_by_variant(a, b) == a.tag = b.tag

\* #[derive(PartialEq, Eq)] on Method, Inner, InlineExtension and
\* AllocatedExtension: the same variant with equal fields (for the inline
\* variant the whole array and the length).
Method_eq(a, b) ==
    /\ a.tag = b.tag
    /\ CASE a.tag = "ExtensionInline" -> a.data = b.data /\ a.len = b.len
         [] a.tag = "ExtensionAllocated" -> a.data = b.data
         [] OTHER -> TRUE

\* #[derive(Hash)]: what is fed to the Hasher, the discriminant and then
\* the fields (an array as its bytes, a Vec as its length and bytes).
Method_hash(m) ==
    CASE m.tag = "ExtensionInline" -> <<m.tag>> \o m.data \o <<m.len>>
      [] m.tag = "ExtensionAllocated" -> <<m.tag, Len(m.data)>> \o m.data
      [] OTHER -> <<m.tag>>

\* impl PartialEq<str> for Method: self.as_ref() == other
Method_eq_str(m, s) == Method_as_str(m) = s

\* impl PartialEq<Method> for str: self == other.as_ref()
str_eq_Method(s, m) == s = Method_as_str(m)

\* impl PartialEq<&str> for Method: self.as_ref() == *other
Method_eq_ref_str(m, s) == Method_as_str(m) = s

\* impl PartialEq<Method> for &str: *self == other.as_ref()
ref_str_eq_Method(s, m) == s = Method_as_str(m)

\* The tags of the associated constants Method::GET .. Method::TRACE.
StandardTags ==
    {"Get", "Post", "Put", "Delete", "Head", "Options", "Connect", "Patch", "Trace"}

Verbs == {GET, PUT, POST, HEAD, PATCH, TRACE, DELETE, OPTIONS, CONNECT}

Repeat(b, n) == [i \in 1..n |-> b]

\* A verb with its last byte in lower case, or replaced by a space.
NearVerbs ==
    {[v EXCEPT ![Len(v)] = v[Len(v)] + 32] : v \in Verbs}
        \cup {[v EXCEPT ![Len(v)] = 32] : v \in Verbs}
        \cup {<<103, 101, 116>>}

\* '!', '"', 'A', 'a', '~', DEL and an opaque octet.
MethodBytes == {33, 34, 65, 97, 126, 127, 200}

\* Runs of 'A' up to and past the inline capacity, alone and followed by a
\* space or by '~'.
Runs ==
    {Repeat(65, n) \o tail : n \in 0..MaxRun, tail \in {<<>>, <<32>>, <<126>>}}

\* Every single byte, the short slices over MethodBytes, the verbs and
\* their near misses, and the runs.
MethodInputs ==
    {<<b>> : b \in Byte} \cup SeqsUpTo(MethodBytes, MaxTokenLen)
        \cup Verbs \cup NearVerbs \cup Runs

\* The inputs of type &str.
MethodStrs == StrOf(MethodInputs)

\* Tokens of the two-method harness: the verbs and their near misses, runs
\* of a letter around the inline capacity, the empty slice and a space.
PairTokens ==
    Verbs \cup NearVerbs
        \cup {Repeat(b, n) : b \in {65, 66},
                             n \in {1, InlineExtension_MAX, InlineExtension_MAX + 1}}
        \cup {<<>>, <<32>>}

\* ---- operations ----

\* from_bytes, also reached as TryFrom<&[u8]>.
MethodFromBytes(src) ==
    /\ Fresh
    /\ LET r == Method_from_bytes(src)
       IN  /\ call' = Called("from_bytes", src, r.res, r.ctor)
           /\ method' = r.value
    /\ UNCHANGED <<val, other, status, bstr, builder, chain, hmap, alt>>

MethodFromStr(t) ==
    /\ Fresh
    /\ LET r == Method_from_str(t)
       IN  /\ call' = Called("from_str", t, r.res, r.ctor)
           /\ method' = r.value
    /\ UNCHANGED <<val, other, status, bstr, builder, chain, hmap, alt>>

\* One of the associated constants; Default::default() is Method::GET.
MethodConst(tag) ==
    /\ Fresh
    /\ call' = Called("const", tag, "Ok", <<>>)
    /\ method' = Standard(tag)
    /\ UNCHANGED <<val, other, status, bstr, builder, chain, hmap, alt>>

MethodAsStr ==
    /\ method.some
    /\ call' = Called("as_str", <<>>, "Ok", Method_as_str(method))
    /\ UNCHANGED <<method, val, other, status, bstr, builder, chain, hmap, alt>>

MethodIsSafe ==
    /\ method.some
    /\ call' = Called("is_safe", <<>>, "Ok", is_safe(method))
    /\ UNCHANGED <<method, val, other, status, bstr, builder, chain, hmap, alt>>

MethodIsIdempotent ==
    /\ method.some
    /\ call' = Called("is_idempotent", <<>>, "Ok", is_idempotent(method))
    /\ UNCHANGED <<method, val, other, status, bstr, builder, chain, hmap, alt>>

MethodNext ==
    \/ Fresh /\ \E src \in MethodInputs : MethodFromBytes(src)
    \/ Fresh /\ \E t \in MethodStrs : MethodFromStr(t)
    \/ Fresh /\ \E tag \in StandardTags : MethodConst(tag)
    \/ MethodAsStr
    \/ MethodIsSafe
    \/ MethodIsIdempotent

SpecMethod == Init /\ [][MethodNext]_vars

\* ---- operations of the two-method harness: `other` is the second ----

MPairFromBytes(src) ==
    /\ method.some
    /\ ~other.some
    /\ LET r == Method_from_bytes(src)
       IN  /\ call' = Called("from_bytes", src, r.res, r.ctor)
           /\ other' = r.value
    /\ UNCHANGED <<val, method, status, bstr, builder, chain, hmap, alt>>

MPairConst(tag) ==
    /\ method.some
    /\ ~other.some
    /\ call' = Called("const", tag, "Ok", <<>>)
    /\ other' = Standard(tag)
    /\ UNCHANGED <<val, method, status, bstr, builder, chain, hmap, alt>>

\* method == other, and whether the two feed a Hasher alike.
MPairEq ==
    /\ method.some
    /\ other.some
    /\ call' = Called("eq", <<>>, "Ok",
                      <<Method_eq(method, other),
                        Method_hash(method) = Method_hash(other)>>)
    /\ UNCHANGED <<val, other, method, status, bstr, builder, chain, hmap, alt>>

\* method == s and s == method, for s: str and s: &str.
MPairEqStr(s) ==
    /\ method.some
    /\ call' = Called("eq_str", s, "Ok",
                      <<Method_eq_str(method, s), str_eq_Method(s, method),
                        Method_eq_ref_str(method, s), ref_str_eq_Method(s, method)>>)
    /\ UNCHANGED <<val, other, method, status, bstr, builder, chain, hmap, alt>>

MethodPairNext ==
    \/ Fresh /\ \E src \in PairTokens : MethodFromBytes(src)
    \/ Fresh /\ \E tag \in StandardTags : MethodConst(tag)
    \/ \E src \in PairTokens : MPairFromBytes(src)
    \/ \E tag \in StandardTags : MPairConst(tag)
    \/ MPairEq
    \/ \E s \in PairTokens : MPairEqStr(s)

SpecMethodPair == Init /\ [][MethodPairNext]_vars

(***************************************************************************)
(* ByteStr (src/src/byte_str.rs).                                          *)
(***************************************************************************)
\* const fn new(): Bytes::new().  Default::default() is Self::new().
ByteStr_new == ByteStr(<<>>)

\* const fn from_static(val: &'static str): Bytes::from_static(val.as_bytes())
ByteStr_from_static(s) == ByteStr(s)

\* A from_utf8 that wraps the buffer without scanning it.
from_utf8_no_scan(bytes) == [res |-> "Ok", value |-> ByteStr(bytes)]

\* from_utf8(bytes): str::from_utf8(&bytes)?; Ok(Self { bytes })
ByteStr_from_utf8(bytes) ==
    IF str_from_utf8(bytes)
    THEN [res |-> "Ok", value |-> ByteStr(bytes)]
    ELSE [res |-> "Err", value |-> NoByteStr]

\* impl From<String>: Bytes::from(src)
ByteStr_from_string(s) == ByteStr(s)

\* impl From<&str>: Bytes::copy_from_slice(src.as_bytes())
ByteStr_from_str(s) == ByteStr(s)

\* #[derive(Clone)]
ByteStr_clone(b) == ByteStr(b.bytes)

\* impl Deref: str::from_utf8_unchecked(self.bytes.as_ref())
ByteStr_deref(b) == b.bytes

\* impl From<ByteStr> for Bytes: src.bytes
ByteStr_into_bytes(b) == b.bytes

\* Bytes of the UTF-8 table's rows: 'A', continuation bytes 0x80, 0x90,
\* 0xA0, 0xA9, the leads 0xC3, 0xE0, 0xED, 0xF0, and 0xFF.
Utf8Bytes == {65, 128, 144, 160, 169, 195, 224, 237, 240, 255}

ByteStrInputs == SeqsUpTo(Utf8Bytes, MaxUtf8Len)

\* The inputs of type &str or String.
ByteStrStrs == StrOf(ByteStrInputs)

\* ---- operations ----

ByteStrNew ==
    /\ Fresh
    /\ call' = Called("new", <<>>, "Ok", <<>>)
    /\ bstr' = ByteStr_new
    /\ UNCHANGED <<val, other, method, status, builder, chain, hmap, alt>>

ByteStrFromStatic(s) ==
    /\ Fresh
    /\ call' = Called("from_static", s, "Ok", <<>>)
    /\ bstr' = ByteStr_from_static(s)
    /\ UNCHANGED <<val, other, method, status, builder, chain, hmap, alt>>

ByteStrFromUtf8(bytes) ==
    /\ Fresh
    /\ LET r == ByteStr_from_utf8(bytes)
       IN  /\ call' = Called("from_utf8", bytes, r.res, <<>>)
           /\ bstr' = r.value
    /\ UNCHANGED <<val, other, method, status, builder, chain, hmap, alt>>

ByteStrFromString(s) ==
    /\ Fresh
    /\ call' = Called("from_string", s, "Ok", <<>>)
    /\ bstr' = ByteStr_from_string(s)
    /\ UNCHANGED <<val, other, method, status, builder, chain, hmap, alt>>

ByteStrFromStr(s) ==
    /\ Fresh
    /\ call' = Called("from_str", s, "Ok", <<>>)
    /\ bstr' = ByteStr_from_str(s)
    /\ UNCHANGED <<val, other, method, status, builder, chain, hmap, alt>>

\* The clone takes the place of the value it was made from.
ByteStrClone ==
    /\ bstr.some
    /\ call' = Called("clone", <<>>, "Ok", <<>>)
    /\ bstr' = ByteStr_clone(bstr)
    /\ UNCHANGED <<val, other, method, status, builder, chain, hmap, alt>>

\* The text view, read without validation.
ByteStrDeref ==
    /\ bstr.some
    /\ call' = Called("deref", <<>>, "Ok", ByteStr_deref(bstr))
    /\ UNCHANGED <<bstr, val, other, method, status, builder, chain, hmap, alt>>

\* Bytes::from(byte_str) consumes the value.
ByteStrIntoBytes ==
    /\ bstr.some
    /\ call' = Called("into_bytes", <<>>, "Ok", ByteStr_into_bytes(bstr))
    /\ bstr' = NoByteStr
    /\ UNCHANGED <<val, other, method, status, builder, chain, hmap, alt>>

ByteStrNext ==
    \/ ByteStrNew
    \/ Fresh /\ \E s \in ByteStrStrs : ByteStrFromStatic(s)
    \/ Fresh /\ \E bytes \in ByteStrInputs : ByteStrFromUtf8(bytes)
    \/ Fresh /\ \E s \in ByteStrStrs : ByteStrFromString(s)
    \/ Fresh /\ \E s \in ByteStrStrs : ByteStrFromStr(s)
    \/ ByteStrClone
    \/ ByteStrDeref
    \/ ByteStrIntoBytes

SpecByteStr == Init /\ [][ByteStrNext]_vars

(***************************************************************************)
(* HeaderValue (src/src/header/value.rs).                                  *)
(***************************************************************************)
\* A visibility predicate that starts at the digits: b >= b'0' && b < 127.
is_visible_ascii_from_digits(b) == (b >= 48 /\ b < 127) \/ b = 9

\* const fn is_visible_ascii(b: u8): b >= 32 && b < 127 || b == b'\t'
is_visible_ascii(b) == (b >= 32 /\ b < 127) \/ b = 9

\* A validity predicate that forgets DEL: b >= 32 || b == b'\t'.
is_valid_with_del(b) == b >= 32 \/ b = 9

\* const fn is_valid(b: u8): b >= 32 && b != 127 || b == b'\t'
is_valid(b) == (b >= 32 /\ b # 127) \/ b = 9

\* for &b in src.as_ref() { if !is_valid(b) { return Err(..) } }
RECURSIVE AllValidFrom(_, _)
AllValidFrom(src, i) ==
    IF i > Len(src) THEN TRUE
    ELSE IF ~is_valid(src[i]) THEN FALSE
    ELSE AllValidFrom(src, i + 1)

\* try_from_generic(src, into): the scan, then Ok(Self { inner: into(src),
\* is_sensitive: false }).  Every `into` used (copy_from_slice, identity)
\* keeps the bytes.
try_from_generic(src) ==
    IF AllValidFrom(src, 1)
    THEN [res |-> "Ok", value |-> HeaderValue(src, FALSE)]
    ELSE [res |-> "Err", value |-> NoValue]

HeaderValue_from_bytes(src) == try_from_generic(src)

\* from_str(src: &str) = try_from_generic(src, |s| copy_from_slice(s.as_bytes()))
HeaderValue_from_str(src) == try_from_generic(src)

\* while i < bytes.len() { if !is_visible_ascii(bytes[i]) { <fault> } i += 1 }
RECURSIVE AllVisibleFrom(_, _)
AllVisibleFrom(bytes, i) ==
    IF i > Len(bytes) THEN TRUE
    ELSE IF ~is_visible_ascii(bytes[i]) THEN FALSE
    ELSE AllVisibleFrom(bytes, i + 1)

\* A from_static that scans with is_valid, as from_bytes does.
from_static_is_valid(src) ==
    IF AllValidFrom(src, 1)
    THEN [res |-> "Ok", value |-> HeaderValue(src, FALSE)]
    ELSE [res |-> "Panic", value |-> NoValue]

\* const fn from_static(src: &'static str): the out-of-bounds index
\* ([] as [u8; 0])[0] is the constant-evaluation fault (a panic at run time).
HeaderValue_from_static(src) ==
    IF AllVisibleFrom(src, 1)
    THEN [res |-> "Ok", value |-> HeaderValue(src, FALSE)]
    ELSE [res |-> "Panic", value |-> NoValue]

\* A to_str that scans with the constructors' predicate.
to_str_is_valid(v) ==
    IF AllValidFrom(v.inner, 1)
    THEN [res |-> "Ok", text |-> v.inner]
    ELSE [res |-> "Err", text |-> <<>>]

\* to_str(&self): Err(ToStrError) on the first byte that is not visible
\* ASCII, else the bytes viewed as a str.
HeaderValue_to_str(v) ==
    IF AllVisibleFrom(v.inner, 1)
    THEN [res |-> "Ok", text |-> v.inner]
    ELSE [res |-> "Err", text |-> <<>>]

\* as_bytes(&self) / as_ref(&self): self.inner.as_ref()
HeaderValue_as_bytes(v) == v.inner

\* len(&self): self.as_ref().len()
HeaderValue_len(v) == Len(HeaderValue_as_bytes(v))

\* A set_sensitive that sets the flag whatever its argument.
set_sensitive_always(v, b) == [v EXCEPT !.is_sensitive = TRUE]

\* set_sensitive(&mut self, val: bool): self.is_sensitive = val
HeaderValue_set_sensitive(v, b) == [v EXCEPT !.is_sensitive = b]

\* is_sensitive(&self): self.is_sensitive
HeaderValue_is_sensitive(v) == v.is_sensitive

\* <[u8] as Ord>::cmp: lexicographic, a proper prefix is Less.
RECURSIVE CmpFrom(_, _, _)
CmpFrom(a, b, i) ==
    IF i > Len(a) /\ i > Len(b) THEN "Equal"
    ELSE IF i > Len(a) THEN "Less"
    ELSE IF i > Len(b) THEN "Greater"
    ELSE IF a[i] < b[i] THEN "Less"
    ELSE IF a[i] > b[i] THEN "Greater"
    ELSE CmpFrom(a, b, i + 1)

CmpBytes(a, b) == CmpFrom(a, b, 1)

\* An equality derived over both fields.
eq_derived(a, b) == a.inner = b.inner /\ a.is_sensitive = b.is_sensitive

\* impl PartialEq for HeaderValue: self.inner == other.inner
HeaderValue_eq(a, b) == a.inner = b.inner

\* impl Ord for HeaderValue: self.inner.cmp(&other.inner)
HeaderValue_cmp(a, b) == CmpBytes(a.inner, b.inner)

\* impl Hash for HeaderValue: self.inner.hash(state).  The value is what is
\* written to the Hasher: the slice's length prefix, then its bytes.
HeaderValue_hash(a) == <<Len(a.inner)>> \o a.inner

\* One lowercase hexadecimal digit.
hex_digit(d) == IF d < 10 THEN 48 + d ELSE 97 + (d - 10)

\* A LowerHex that pads to two digits ({b:02x}).
lower_hex_padded(b) == <<hex_digit(b \div 16), hex_digit(b % 16)>>

\* A LowerHex that writes only the last digit.
lower_hex_last_digit(b) == <<hex_digit(b % 16)>>

\* {b:x} for a u8: the digits of b in base 16, most significant first, no
\* padding.
lower_hex(b) ==
    IF b < 16 THEN <<hex_digit(b)>>
    ELSE <<hex_digit(b \div 16), hex_digit(b % 16)>>

\* The literal "Sensitive".
SENSITIVE == <<83, 101, 110, 115, 105, 116, 105, 118, 101>>

\* The loop of Debug::fmt: i is the index of the byte looked at, from the
\* start of the run not yet written (both from 1 here), out what has been
\* written to the formatter.  After the loop the last run and the closing
\* quote are written.
RECURSIVE fmt_from(_, _, _, _)
fmt_from(bytes, i, from, out) ==
    IF i > Len(bytes)
    THEN out \o SubSeq(bytes, from, Len(bytes)) \o <<34>>
    ELSE LET b == bytes[i]
         IN  IF ~is_visible_ascii(b) \/ b = 34
             THEN LET run == IF from # i THEN SubSeq(bytes, from, i - 1) ELSE <<>>
                      esc == IF b = 34 THEN <<92, 34>>
                             ELSE <<92, 120>> \o lower_hex(b)
                  IN  fmt_from(bytes, i + 1, i + 1, out \o run \o esc)
             ELSE fmt_from(bytes, i + 1, from, out)

\* A Debug that renders the content whatever the flag.
fmt_ignores_flag(v) == fmt_from(v.inner, 1, 1, <<34>>)

\* impl fmt::Debug for HeaderValue: the text written to the formatter.
HeaderValue_fmt(v) ==
    IF v.is_sensitive THEN SENSITIVE
    ELSE fmt_from(v.inner, 1, 1, <<34>>)

\* from_shared(src: Bytes) = try_from_generic(src, identity)
HeaderValue_from_shared(src) == try_from_generic(src)

\* A from_maybe_shared that takes a Bytes buffer as it is.
from_maybe_shared_trusts_bytes(src, is_bytes) ==
    IF is_bytes
    THEN [res |-> "Ok", value |-> HeaderValue(src, FALSE)]
    ELSE HeaderValue_from_bytes(src)

\* from_maybe_shared<T>(src): if T is Bytes, from_shared(src); otherwise
\* from_bytes(src.as_ref()).
HeaderValue_from_maybe_shared(src, is_bytes) ==
    IF is_bytes
    THEN HeaderValue_from_shared(src)
    ELSE HeaderValue_from_bytes(src)

\* from_maybe_shared_unchecked<T>(src): with debug_assertions,
\* from_maybe_shared(src).unwrap_or_else(|_| panic!(..)); without, the
\* bytes of src (the buffer itself if T is Bytes, else a copy) unscanned.
HeaderValue_from_maybe_shared_unchecked(src, is_bytes, debug_assertions) ==
    IF debug_assertions
    THEN LET r == HeaderValue_from_maybe_shared(src, is_bytes)
         IN  IF r.res = "Ok" THEN r
             ELSE [res |-> "Panic", value |-> NoValue]
    ELSE [res |-> "Ok", value |-> HeaderValue(src, FALSE)]

\* impl TryFrom<String>: from_shared(t.into())
HeaderValue_try_from_string(t) == HeaderValue_from_shared(t)

\* impl TryFrom<Vec<u8>>: from_shared(vec.into())
HeaderValue_try_from_vec(vec) == HeaderValue_from_shared(vec)

\* impl PartialEq<str> for HeaderValue: self.inner == other.as_bytes()
HeaderValue_eq_str(v, s) == v.inner = s

\* impl PartialEq<[u8]> for HeaderValue: self.inner == other
HeaderValue_eq_slice(v, x) == v.inner = x

\* impl PartialOrd<str> for HeaderValue
HeaderValue_partial_cmp_str(v, s) == CmpBytes(v.inner, s)

\* impl PartialOrd<[u8]> for HeaderValue
HeaderValue_partial_cmp_slice(v, x) == CmpBytes(v.inner, x)

\* impl PartialEq<HeaderValue> for str: *other == *self
str_eq_HeaderValue(s, v) == HeaderValue_eq_str(v, s)

\* impl PartialEq<HeaderValue> for [u8]: *other == *self
slice_eq_HeaderValue(x, v) == HeaderValue_eq_slice(v, x)

\* A reversed comparison that keeps the operands of the forward one.
str_partial_cmp_unreversed(s, v) == CmpBytes(v.inner, s)

\* impl PartialOrd<HeaderValue> for str
str_partial_cmp_HeaderValue(s, v) == CmpBytes(s, HeaderValue_as_bytes(v))

\* impl PartialOrd<HeaderValue> for [u8]
slice_partial_cmp_HeaderValue(x, v) == CmpBytes(x, HeaderValue_as_bytes(v))

\* impl PartialEq<String> for HeaderValue: *self == other[..]
HeaderValue_eq_String(v, s) == HeaderValue_eq_str(v, s)

\* impl PartialOrd<String> for HeaderValue
HeaderValue_partial_cmp_String(v, s) == CmpBytes(v.inner, s)

\* impl PartialEq<HeaderValue> for String: *other == *self
String_eq_HeaderValue(s, v) == HeaderValue_eq_String(v, s)

\* impl PartialOrd<HeaderValue> for String
String_partial_cmp_HeaderValue(s, v) == CmpBytes(s, HeaderValue_as_bytes(v))

\* impl PartialEq<&T> for HeaderValue, at T = str: *self == **other
HeaderValue_eq_ref_str(v, s) == HeaderValue_eq_str(v, s)

\* impl PartialOrd<&T> for HeaderValue, at T = str: self.partial_cmp(*other)
HeaderValue_partial_cmp_ref_str(v, s) == HeaderValue_partial_cmp_str(v, s)

\* impl PartialEq<HeaderValue> for &str: *other == *self
ref_str_eq_HeaderValue(s, v) == HeaderValue_eq_ref_str(v, s)

\* impl PartialOrd<HeaderValue> for &str
ref_str_partial_cmp_HeaderValue(s, v) == CmpBytes(s, HeaderValue_as_bytes(v))

\* The operand types of the cross-type comparisons.
OperandKinds == {"str", "slice", "String", "ref_str"}

\* v == x, x == v, v.partial_cmp(x) and x.partial_cmp(v) for an operand x of
\* the given type.
CrossCompare(kind, v, x) ==
    CASE kind = "str" ->
            <<HeaderValue_eq_str(v, x), str_eq_HeaderValue(x, v),
              HeaderValue_partial_cmp_str(v, x), str_partial_cmp_HeaderValue(x, v)>>
      [] kind = "slice" ->
            <<HeaderValue_eq_slice(v, x), slice_eq_HeaderValue(x, v),
              HeaderValue_partial_cmp_slice(v, x), slice_partial_cmp_HeaderValue(x, v)>>
      [] kind = "String" ->
            <<HeaderValue_eq_String(v, x), String_eq_HeaderValue(x, v),
              HeaderValue_partial_cmp_String(v, x), String_partial_cmp_HeaderValue(x, v)>>
      [] kind = "ref_str" ->
            <<HeaderValue_eq_ref_str(v, x), ref_str_eq_HeaderValue(x, v),
              HeaderValue_partial_cmp_ref_str(v, x), ref_str_partial_cmp_HeaderValue(x, v)>>

\* ---- From<integer> (the from_integers! macro) ----

\* An integer is held as its bit pattern: 16-bit limbs, most significant
\* first (one limb for 16 bits, two for 32, four for 64); a signed integer
\* is in two's complement.
IntType(name, limbs, signed, max_len) ==
    [name |-> name, limbs |-> limbs, signed |-> signed, max_len |-> max_len]

\* from_integers! { from_u16: u16 => 5, .. }: each type with its
\* $max_len; usize and isize once per target_pointer_width (16, 32, 64).
IntTypes ==
    { IntType("u16", 1, FALSE, 5), IntType("i16", 1, TRUE, 6),
      IntType("u32", 2, FALSE, 10), IntType("i32", 2, TRUE, 11),
      IntType("u64", 4, FALSE, 20), IntType("i64", 4, TRUE, 20),
      IntType("usize", 1, FALSE, 5), IntType("isize", 1, TRUE, 6),
      IntType("usize", 2, FALSE, 10), IntType("isize", 2, TRUE, 11),
      IntType("usize", 4, FALSE, 20), IntType("isize", 4, TRUE, 20) }

\* Limb values at the ends of the range, around the sign bit and around
\* powers of ten.
LimbValues == {0, 1, 9, 10, 55, 10000, 32767, 32768, 65535}

IntInputs(ty) == [1..ty.limbs -> LimbValues]

IsZero(bits) == \A i \in 1..Len(bits) : bits[i] = 0

\* bits + 1, wrapping.
RECURSIVE AddOneFrom(_, _)
AddOneFrom(bits, i) ==
    IF i = 0 THEN bits
    ELSE IF bits[i] = 65535 THEN AddOneFrom([bits EXCEPT ![i] = 0], i - 1)
    ELSE [bits EXCEPT ![i] = bits[i] + 1]

\* (!n).wrapping_add(1): the magnitude of a negative n.
wrapping_neg(bits) ==
    AddOneFrom([i \in 1..Len(bits) |-> 65535 - bits[i]], Len(bits))

\* Quotient and remainder of bits by ten, by long division over the limbs.
RECURSIVE DivMod10From(_, _, _)
DivMod10From(bits, i, r) ==
    IF i > Len(bits) THEN [q |-> bits, r |-> r]
    ELSE LET cur == r * 65536 + bits[i]
         IN  DivMod10From([bits EXCEPT ![i] = cur \div 10], i + 1, cur % 10)

\* The decimal digits of a non-zero magnitude, most significant first.
RECURSIVE DecimalDigits(_)
DecimalDigits(bits) ==
    IF IsZero(bits) THEN <<>>
    ELSE LET d == DivMod10From(bits, 1, 0)
         IN  DecimalDigits(d.q) \o <<48 + d.r>>

\* An itoa that reads every bit pattern as unsigned.
itoa_format_unsigned(ty, bits) ==
    IF IsZero(bits) THEN <<48>> ELSE DecimalDigits(bits)

\* itoa::Buffer::new().format(num): the decimal digits of |num|, after '-'
\* when num < 0.
itoa_format(ty, bits) ==
    LET negative == ty.signed /\ bits[1] >= 32768
        n == IF negative THEN wrapping_neg(bits) ELSE bits
        digits == IF IsZero(n) THEN <<48>> ELSE DecimalDigits(n)
    IN  IF negative THEN <<45>> \o digits ELSE digits

\* impl From<$t> for HeaderValue: buf = BytesMut::with_capacity($max_len);
\* let _ = buf.write_str(itoa(num)); HeaderValue { inner: buf.freeze(),
\* is_sensitive: false }.  BytesMut grows on demand, so the write appends
\* the text whatever the capacity.
HeaderValue_from_integer(ty, bits) ==
    LET buf == <<>> \o itoa_format(ty, bits)
    IN  [res |-> "Ok", value |-> HeaderValue(buf, FALSE)]

\* ---- operations of the single-value harness ----

HVFromBytes(src) ==
    /\ Fresh
    /\ LET r == HeaderValue_from_bytes(src)
       IN  /\ call' = Called("from_bytes", src, r.res, <<>>)
           /\ val' = r.value
    /\ UNCHANGED <<other, method, status, bstr, builder, chain, hmap, alt>>

HVFromStr(src) ==
    /\ Fresh
    /\ LET r == HeaderValue_from_str(src)
       IN  /\ call' = Called("from_str", src, r.res, <<>>)
           /\ val' = r.value
    /\ UNCHANGED <<other, method, status, bstr, builder, chain, hmap, alt>>

HVFromStatic(src) ==
    /\ Fresh
    /\ LET r == HeaderValue_from_static(src)
       IN  /\ call' = Called("from_static", src, r.res, <<>>)
           /\ val' = r.value
    /\ UNCHANGED <<other, method, status, bstr, builder, chain, hmap, alt>>

HVToStr ==
    /\ val.some
    /\ LET r == HeaderValue_to_str(val)
       IN  call' = Called("to_str", <<>>, r.res, r.text)
    /\ UNCHANGED <<val, other, method, status, bstr, builder, chain, hmap, alt>>

HVSetSensitive(b) ==
    /\ val.some
    /\ val' = HeaderValue_set_sensitive(val, b)
    /\ call' = Called("set_sensitive", b, "-", <<>>)
    /\ UNCHANGED <<other, method, status, bstr, builder, chain, hmap, alt>>

HVIsSensitive ==
    /\ val.some
    /\ call' = Called("is_sensitive", <<>>, "-", HeaderValue_is_sensitive(val))
    /\ UNCHANGED <<val, other, method, status, bstr, builder, chain, hmap, alt>>

HVAsBytes ==
    /\ val.some
    /\ call' = Called("as_bytes", <<>>, "-", HeaderValue_as_bytes(val))
    /\ UNCHANGED <<val, other, method, status, bstr, builder, chain, hmap, alt>>

HVLen ==
    /\ val.some
    /\ call' = Called("len", <<>>, "-", HeaderValue_len(val))
    /\ UNCHANGED <<val, other, method, status, bstr, builder, chain, hmap, alt>>

\* from_maybe_shared::<T>(src), T being Bytes or another AsRef<[u8]> type.
HVFromMaybeShared(src, is_bytes) ==
    /\ Fresh
    /\ LET r == HeaderValue_from_maybe_shared(src, is_bytes)
       IN  /\ call' = Called("from_maybe_shared", src, r.res, <<is_bytes>>)
           /\ val' = r.value
    /\ UNCHANGED <<other, method, status, bstr, builder, chain, hmap, alt>>

\* from_maybe_shared_unchecked::<T>(src) in a build with or without
\* debug_assertions.
HVFromMaybeSharedUnchecked(src, is_bytes, debug_assertions) ==
    /\ Fresh
    /\ LET r == HeaderValue_from_maybe_shared_unchecked(src, is_bytes, debug_assertions)
       IN  /\ call' = Called("from_maybe_shared_unchecked", src, r.res,
                             <<is_bytes, debug_assertions>>)
           /\ val' = r.value
    /\ UNCHANGED <<other, method, status, bstr, builder, chain, hmap, alt>>

HVTryFromString(t) ==
    /\ Fresh
    /\ LET r == HeaderValue_try_from_string(t)
       IN  /\ call' = Called("try_from_string", t, r.res, <<>>)
           /\ val' = r.value
    /\ UNCHANGED <<other, method, status, bstr, builder, chain, hmap, alt>>

HVTryFromVec(vec) ==
    /\ Fresh
    /\ LET r == HeaderValue_try_from_vec(vec)
       IN  /\ call' = Called("try_from_vec", vec, r.res, <<>>)
           /\ val' = r.value
    /\ UNCHANGED <<other, method, status, bstr, builder, chain, hmap, alt>>

\* format!("{:?}", val)
HVDebug ==
    /\ val.some
    /\ call' = Called("fmt", <<>>, "Ok", HeaderValue_fmt(val))
    /\ UNCHANGED <<val, other, method, status, bstr, builder, chain, hmap, alt>>

HVNext ==
    \/ Fresh /\ \E src \in HVInputs : HVFromBytes(src)
    \/ Fresh /\ \E src \in HVStrs : HVFromStr(src)
    \/ Fresh /\ \E src \in HVStrs : HVFromStatic(src)
    \/ Fresh /\ \E src \in HVInputs, is_bytes \in BOOLEAN :
                   HVFromMaybeShared(src, is_bytes)
    \/ Fresh /\ \E src \in HVInputs, is_bytes \in BOOLEAN, dbg \in BOOLEAN :
                   HVFromMaybeSharedUnchecked(src, is_bytes, dbg)
    \/ Fresh /\ \E t \in HVStrs : HVTryFromString(t)
    \/ Fresh /\ \E vec \in HVInputs : HVTryFromVec(vec)
    \/ HVToStr
    \/ HVDebug
    \/ \E b \in BOOLEAN : HVSetSensitive(b)
    \/ HVIsSensitive
    \/ HVAsBytes
    \/ HVLen

SpecHeaderValue == Init /\ [][HVNext]_vars

\* ---- operations of the two-value harness ----

\* A second value built from its own slice.
PairFromBytes(src) ==
    /\ val.some
    /\ ~other.some
    /\ LET r == HeaderValue_from_bytes(src)
       IN  /\ call' = Called("from_bytes", src, r.res, <<>>)
           /\ other' = r.value
    /\ UNCHANGED <<val, method, status, bstr, builder, chain, hmap, alt>>

\* #[derive(Clone)]: both fields are copied.
PairClone ==
    /\ val.some
    /\ ~other.some
    /\ other' = val
    /\ call' = Called("clone", <<>>, "-", <<>>)
    /\ UNCHANGED <<val, method, status, bstr, builder, chain, hmap, alt>>

PairSetSensitive(b) ==
    /\ other.some
    /\ other' = [other EXCEPT !.is_sensitive = b]
    /\ call' = Called("set_sensitive", <<>>, "-", <<>>)
    /\ UNCHANGED <<val, method, status, bstr, builder, chain, hmap, alt>>

PairNext ==
    \/ Fresh /\ \E src \in PairInputs : HVFromBytes(src)
    \/ \E src \in PairInputs : PairFromBytes(src)
    \/ PairClone
    \/ \E b \in BOOLEAN : HVSetSensitive(b)
    \/ \E b \in BOOLEAN : PairSetSensitive(b)

SpecHeaderValuePair == Init /\ [][PairNext]_vars

\* ---- operations of the two-rendering harness ----

\* Slices whose renderings are close: a high byte and the text of its
\* escape, a tab before a hexadecimal digit and the byte with those two
\* digits, a quote and the text of its escape.
DebugInputs ==
    {<<>>, <<65>>, <<9>>, <<34>>, <<128>>, <<144>>, <<200>>,
     <<9, 48>>, <<92, 34>>, <<120, 56, 48>>, <<128, 48>>,
     <<92, 120, 56, 48>>, <<92, 120, 57, 48>>}

\* format!("{:?}", val) and format!("{:?}", other)
HVDebugPair ==
    /\ val.some
    /\ other.some
    /\ call' = Called("fmt_pair", <<>>, "Ok",
                      <<HeaderValue_fmt(val), HeaderValue_fmt(other)>>)
    /\ UNCHANGED <<val, other, method, status, bstr, builder, chain, hmap, alt>>

DebugPairNext ==
    \/ Fresh /\ \E src \in DebugInputs : HVFromBytes(src)
    \/ \E src \in DebugInputs : PairFromBytes(src)
    \/ HVDebugPair

SpecHeaderValueDebugPair == Init /\ [][DebugPairNext]_vars

\* ---- operations of the cross-type comparison harness ----

\* val compared with an operand x of a text or byte-sequence type, in both
\* directions.
HVCompare(kind, x) ==
    /\ val.some
    /\ call' = Called("compare", x, kind, CrossCompare(kind, val, x))
    /\ UNCHANGED <<val, other, method, status, bstr, builder, chain, hmap, alt>>

CompareNext ==
    \/ Fresh /\ \E src \in PairInputs : HVFromBytes(src)
    \/ \E x \in PairInputs : HVCompare("slice", x)
    \/ \E kind \in OperandKinds \ {"slice"}, x \in PairStrs : HVCompare(kind, x)

SpecHeaderValueCompare == Init /\ [][CompareNext]_vars

\* ---- operations of the integer-conversion harness ----

\* HeaderValue::from(num) for num of type ty with bit pattern bits.
HVFromInteger(ty, bits) ==
    /\ Fresh
    /\ LET r == HeaderValue_from_integer(ty, bits)
       IN  /\ call' = Called("from_integer", [ty |-> ty, bits |-> bits], r.res, <<>>)
           /\ val' = r.value
    /\ UNCHANGED <<other, method, status, bstr, builder, chain, hmap, alt>>

IntNext ==
    \/ Fresh /\ \E ty \in IntTypes : \E bits \in IntInputs(ty) : HVFromInteger(ty, bits)
    \/ HVToStr

SpecHeaderValueInt == Init /\ [][IntNext]_vars

(***************************************************************************)
(* uri::Builder (src/src/uri/builder.rs).                                  *)
(***************************************************************************)
\* The arguments of a setter: a value of a type T: TryInto<Part> whose
\* conversion yields part v, or fails with error err.
SetterArgs ==
    {[ok |-> TRUE, v |-> v, err |-> 0] : v \in 1..2}
        \cup {[ok |-> FALSE, v |-> 0, err |-> e] : e \in 1..2}

Setters == {"scheme", "authority", "path_and_query"}

\* part.try_into().map_err(Into::into): the part, or the crate::Error made
\* of the conversion's error.
try_into(field, arg) ==
    IF arg.ok THEN [ok |-> TRUE, v |-> arg.v, err |-> NoError]
    ELSE [ok |-> FALSE, v |-> 0, err |-> <<field, arg.err>>]

\* The closure of a setter: let part = part.try_into().map_err(Into::into)?;
\* parts.<field> = Some(part); Ok(parts)
set_part(parts, field, arg) ==
    LET r == try_into(field, arg)
    IN  IF ~r.ok THEN PartsErr(r.err)
        ELSE CASE field = "scheme" -> [parts EXCEPT !.scheme = r.v]
               [] field = "authority" -> [parts EXCEPT !.authority = r.v]
               [] field = "path_and_query" -> [parts EXCEPT !.path_and_query = r.v]

\* A map that runs the closure on fresh Parts when the builder holds an
\* error (unwrap_or_default in place of and_then).
map_runs_always(b, field, arg) ==
    Builder(set_part(IF b.parts.ok THEN b.parts ELSE PartsOk(0, 0, 0), field, arg))

\* map(self, func): Self { parts: self.parts.and_then(func) }, func being
\* the closure of the setter for `field`.
Builder_map(b, field, arg) ==
    IF b.parts.ok
    THEN Builder(set_part(b.parts, field, arg))
    ELSE Builder(b.parts)

\* Builder::new(): Self { parts: Ok(Parts::new()) }
Builder_new == Builder(PartsOk(0, 0, 0))

\* scheme(self, scheme) / authority(self, auth) / path_and_query(self, p)
Builder_scheme(b, arg) == Builder_map(b, "scheme", arg)
Builder_authority(b, arg) == Builder_map(b, "authority", arg)
Builder_path_and_query(b, arg) == Builder_map(b, "path_and_query", arg)

\* A build that falls back to the default parts when the builder holds an
\* error.
build_drops_error(b, fits) ==
    IF fits THEN [res |-> "Ok", out |-> PartsOk(0, 0, 0)]
    ELSE [res |-> "Err", out |-> <<"from_parts">>]

\* build(self): let parts = self.parts?; Uri::from_parts(parts)
\* .map_err(Into::into).  `fits` is whether the parts fit a valid form of
\* URI, which Uri::from_parts decides.
Builder_build(b, fits) ==
    IF ~b.parts.ok THEN [res |-> "Err", out |-> b.parts.err]
    ELSE IF fits THEN [res |-> "Ok", out |-> b.parts]
    ELSE [res |-> "Err", out |-> <<"from_parts">>]

\* ---- operations: `chain` is the list of setter calls made so far ----

BuilderNew ==
    /\ Fresh
    /\ builder' = Builder_new
    /\ call' = Called("new", <<>>, "Builder", <<>>)
    /\ UNCHANGED <<val, other, method, status, bstr, chain, hmap, alt>>

BuilderSet(field, arg) ==
    /\ builder.some
    /\ Len(chain) < MaxChain
    /\ builder' = CASE field = "scheme" -> Builder_scheme(builder, arg)
                     [] field = "authority" -> Builder_authority(builder, arg)
                     [] field = "path_and_query" -> Builder_path_and_query(builder, arg)
    /\ chain' = Append(chain, [op |-> field, arg |-> arg])
    /\ call' = Called(field, arg, "Builder", <<>>)
    /\ UNCHANGED <<val, other, method, status, bstr, hmap, alt>>

\* build(self) consumes the builder.
BuilderBuild(fits) ==
    /\ builder.some
    /\ LET r == Builder_build(builder, fits)
       IN  call' = Called("build", <<>>, r.res, r.out)
    /\ builder' = NoBuilder
    /\ UNCHANGED <<val, other, method, status, bstr, chain, hmap, alt>>

BuilderNext ==
    \/ BuilderNew
    \/ \E field \in Setters, arg \in SetterArgs : BuilderSet(field, arg)
    \/ \E fits \in BOOLEAN : BuilderBuild(fits)

SpecBuilder == Init /\ [][BuilderNext]_vars

(***************************************************************************)
(* A method token used as a header value:                                  *)
(* HeaderValue::from_bytes(m.as_str().as_bytes()), then to_str().          *)
(***************************************************************************)
HVFromMethod ==
    /\ method.some
    /\ ~val.some
    /\ LET r == HeaderValue_from_bytes(Method_as_str(method))
       IN  /\ call' = Called("from_method", Method_as_str(method), r.res, <<>>)
           /\ val' = r.value
    /\ UNCHANGED <<other, method, status, bstr, builder, chain, hmap, alt>>

MethodHeaderNext ==
    \/ Fresh /\ \E src \in MethodInputs : MethodFromBytes(src)
    \/ Fresh /\ \E tag \in StandardTags : MethodConst(tag)
    \/ HVFromMethod
    \/ HVToStr

SpecMethodHeader == Init /\ [][MethodHeaderNext]_vars

(***************************************************************************)
(* The HeaderMap conformance test (src/tests/header_map_fuzz.rs).  hmap is *)
(* the HeaderMap under test, alt the test's reference AltMap.              *)
(***************************************************************************)
\* Strings of gen_string's alphabet: "A" and "--".
FuzzStrings == {<<65>>, <<45, 45>>}

\* gen_header_value: HeaderValue::from_bytes(value.as_bytes()).unwrap()
gen_header_value(str) == HeaderValue_from_bytes(str).value

FuzzValues == {gen_header_value(str) : str \in FuzzStrings}

\* v.into_iter().next() / val.first()
First(vals) == IF Len(vals) = 0 THEN NoValue ELSE vals[1]

\* An insert that pushes onto the values the name already has.
alt_insert_pushes(a, name, hv) ==
    [map |-> [a EXCEPT ![name] = [present |-> TRUE, vals |-> Append(a[name].vals, hv)]],
     ret |-> First(a[name].vals)]

\* AltMap::insert: old = self.map.insert(name, vec![val]);
\* old.and_then(|v| v.into_iter().next())
AltMap_insert(a, name, hv) ==
    [map |-> [a EXCEPT ![name] = [present |-> TRUE, vals |-> <<hv>>]],
     ret |-> IF a[name].present THEN First(a[name].vals) ELSE NoValue]

\* AltMap::remove: self.map.remove(name).and_then(|v| v.into_iter().next())
AltMap_remove(a, name) ==
    [map |-> [a EXCEPT ![name] = [present |-> FALSE, vals |-> <<>>]],
     ret |-> IF a[name].present THEN First(a[name].vals) ELSE NoValue]

\* AltMap::gen_append: vals = self.map.entry(name).or_default();
\* ret = !vals.is_empty(); vals.push(val)
AltMap_append(a, name, hv) ==
    LET vals == IF a[name].present THEN a[name].vals ELSE <<>>
    IN  [map |-> [a EXCEPT ![name] = [present |-> TRUE, vals |-> Append(vals, hv)]],
         ret |-> Len(vals) # 0]

\* HeaderMap, an ordered collection of (name, value) pairs: the indices of
\* the pairs of a name, its values in order, the first, the number of
\* distinct names.
IndicesOf(h, name) == {i \in 1..Len(h) : h[i].name = name}

RECURSIVE HeaderMap_get_all_from(_, _, _)
HeaderMap_get_all_from(h, name, i) ==
    IF i > Len(h) THEN <<>>
    ELSE IF h[i].name = name
         THEN <<h[i].value>> \o HeaderMap_get_all_from(h, name, i + 1)
         ELSE HeaderMap_get_all_from(h, name, i + 1)

HeaderMap_get_all(h, name) == HeaderMap_get_all_from(h, name, 1)

HeaderMap_get(h, name) == First(HeaderMap_get_all(h, name))

HeaderMap_keys_len(h) == Cardinality({h[i].name : i \in 1..Len(h)})

\* The pairs of h whose name is not `name`, in order.
RECURSIVE Without(_, _, _)
Without(h, name, i) ==
    IF i > Len(h) THEN <<>>
    ELSE IF h[i].name = name THEN Without(h, name, i + 1)
         ELSE <<h[i]>> \o Without(h, name, i + 1)

\* insert: the name's values are replaced by hv; the previous first value
\* is returned.
HeaderMap_insert(h, name, hv) ==
    [map |-> Append(Without(h, name, 1), [name |-> name, value |-> hv]),
     ret |-> HeaderMap_get(h, name)]

\* append: hv is added after the name's values; returns whether the name
\* already had a value.
HeaderMap_append(h, name, hv) ==
    [map |-> Append(h, [name |-> name, value |-> hv]),
     ret |-> IndicesOf(h, name) # {}]

\* remove: all the name's values are dropped; the first is returned.
HeaderMap_remove(h, name) ==
    [map |-> Without(h, name, 1), ret |-> HeaderMap_get(h, name)]

\* AltMap::assert_identical(&self, other: &HeaderMap): the assertions hold.
assert_identical(a, h) ==
    /\ Cardinality({n \in FuzzNames : a[n].present}) = HeaderMap_keys_len(h)
    /\ \A key \in {n \in FuzzNames : a[n].present} :
          /\ HeaderMap_get(h, key) = First(a[key].vals)
          /\ HeaderMap_get_all(h, key) = a[key].vals

\* One step of Fuzz::run: the action generated against alt (expected)
\* applied to hmap (actual); Action::apply asserts that the two returns
\* are equal, then the step's expect.assert_identical(&map).
FuzzStep(op, name, hv, expected, actual) ==
    /\ hmap' = actual.map
    /\ alt' = expected.map
    /\ call' = Called(op, [name |-> name, val |-> hv],
                      IF actual.ret = expected.ret
                         /\ assert_identical(expected.map, actual.map)
                      THEN "Ok" ELSE "Panic",
                      <<actual.ret, expected.ret>>)
    /\ UNCHANGED <<val, other, method, status, bstr, builder, chain>>

\* A failed assertion ends the test.
Running == call.res # "Panic"

FuzzInsert(name, hv) ==
    /\ Running
    /\ Len(hmap) < MaxEntries
    /\ FuzzStep("insert", name, hv,
                AltMap_insert(alt, name, hv), HeaderMap_insert(hmap, name, hv))

FuzzAppend(name, hv) ==
    /\ Running
    /\ Len(hmap) < MaxEntries
    /\ FuzzStep("append", name, hv,
                AltMap_append(alt, name, hv), HeaderMap_append(hmap, name, hv))

FuzzRemove(name) ==
    /\ Running
    /\ FuzzStep("remove", name, NoValue,
                AltMap_remove(alt, name), HeaderMap_remove(hmap, name))

FuzzNext ==
    \/ \E name \in FuzzNames, v \in FuzzValues : FuzzInsert(name, v)
    \/ \E name \in FuzzNames, v \in FuzzValues : FuzzAppend(name, v)
    \/ \E name \in FuzzNames : FuzzRemove(name)

SpecHeaderMapFuzz == Init /\ [][FuzzNext]_vars

(***************************************************************************)
(* Properties of Method.                                                   *)
(***************************************************************************)
\* RFC 9110 tchar: "!#$%&'*+-.^_`|~", the digits and the letters.
Tchar ==
    {33, 35, 36, 37, 38, 39, 42, 43, 45, 46, 94, 95, 96, 124, 126}
        \cup (48..57) \cup (65..90) \cup (97..122)

\* C2: Method::from_bytes(src) returns Ok iff src is non-empty and every
\* byte of it is a tchar, and InvalidMethod otherwise; METHOD_CHARS has 256
\* entries and maps each tchar to itself and every other byte to 0.
C2_from_bytes_token_iff ==
    /\ Len(METHOD_CHARS) = 256
    /\ \A b \in Byte : METHOD_CHARS[b + 1] = (IF b \in Tchar THEN b ELSE 0)
    /\ call.op = "from_bytes" =>
          LET src == call.arg
              token == Len(src) > 0 /\ \A i \in 1..Len(src) : src[i] \in Tchar
          IN  /\ call.res = (IF token THEN "Ok" ELSE "Err")
              /\ method.some <=> token

\* The accepted extension token "!~".
C2_witness ==
    /\ call.op = "from_bytes"
    /\ call.arg = <<33, 126>>
    /\ call.res = "Ok"
    /\ method.tag = "ExtensionInline"

(***************************************************************************)
(* Properties of StatusCode.                                               *)
(***************************************************************************)
\* C3: StatusCode::from_u16(n) returns Ok iff 100 <= n < 1000, and then
\* as_u16() is n; every other u16 gives InvalidStatusCode.
C3_from_u16_range ==
    call.op = "from_u16" =>
        LET n == call.arg
        IN  /\ call.res = (IF 100 <= n /\ n < 1000 THEN "Ok" ELSE "Err")
            /\ call.res = "Ok" => status.some /\ StatusCode_as_u16(status) = n
            /\ call.res = "Err" => ~status.some

\* The largest accepted number.
C3_witness ==
    call.op = "from_u16" /\ call.arg = 999 /\ call.res = "Ok" /\ status.some

\* C4: StatusCode::from_bytes(src) returns Ok iff src is three ASCII digits
\* of which the first is not '0', the code is then 100*a + 10*b + c; any
\* other slice gives InvalidStatusCode.
C4_from_bytes_three_digits ==
    call.op = "from_bytes" =>
        LET src == call.arg
            digits == /\ Len(src) = 3
                      /\ \A i \in 1..3 : src[i] >= 48 /\ src[i] <= 57
                      /\ src[1] # 48
        IN  /\ call.res = (IF digits THEN "Ok" ELSE "Err")
            /\ digits =>
                  /\ status.some
                  /\ StatusCode_as_u16(status) =
                        100 * (src[1] - 48) + 10 * (src[2] - 48) + (src[3] - 48)
            /\ ~digits => ~status.some

\* from_bytes(b"200") is the OK constant.
C4_witness ==
    /\ call.op = "from_bytes"
    /\ call.arg = <<50, 48, 48>>
    /\ call.res = "Ok"
    /\ status = StatusCode_OK

C5_in_range ==
    status.some => 100 <= StatusCode_as_u16(status) /\ StatusCode_as_u16(status) <= 999

C5_never_changes == status.some => status' = status

\* C5: every StatusCode built by from_u16, from_bytes, FromStr/TryFrom,
\* new/default or a constant has as_u16() in 100..999, and no call changes
\* a code once it is built.
C5_code_always_in_range == []C5_in_range /\ [][C5_never_changes]_vars

\* A code at the top of the range, after a call on it.
C5_witness ==
    status.some /\ status.code = 999 /\ call.op = "classify"

(***************************************************************************)
(* Properties of ByteStr.                                                  *)
(***************************************************************************)
\* The Unicode scalar value that the n bytes at s[i] encode, read by bit
\* pattern: the payload bits of the lead, then six bits per following byte.
Payload(s, i, n) ==
    CASE n = 1 -> s[i]
      [] n = 2 -> (s[i] % 32) * 64 + (s[i + 1] % 64)
      [] n = 3 -> (s[i] % 16) * 4096 + (s[i + 1] % 64) * 64 + (s[i + 2] % 64)
      [] n = 4 -> (s[i] % 8) * 262144 + (s[i + 1] % 64) * 4096
                      + (s[i + 2] % 64) * 64 + (s[i + 3] % 64)

\* The number of bytes a lead byte announces (0: not a lead byte).
Announced(b) ==
    IF b < 128 THEN 1
    ELSE IF b >= 192 /\ b < 224 THEN 2
    ELSE IF b >= 224 /\ b < 240 THEN 3
    ELSE IF b >= 240 /\ b < 248 THEN 4
    ELSE 0

\* The number of bytes UTF-8 uses for scalar value cp.
EncodedLen(cp) ==
    IF cp < 128 THEN 1 ELSE IF cp < 2048 THEN 2 ELSE IF cp < 65536 THEN 3 ELSE 4

\* s[i..] is a concatenation of encoded Unicode scalar values: each lead
\* announces n bytes, the n - 1 that follow are continuation bytes, and the
\* value they carry is a scalar value (no surrogate, at most 0x10FFFF) whose
\* encoding has n bytes (no overlong form).
RECURSIVE ScalarsFrom(_, _)
ScalarsFrom(s, i) ==
    IF i > Len(s) THEN TRUE
    ELSE LET n == Announced(s[i])
         IN  /\ n > 0
             /\ i + n - 1 <= Len(s)
             /\ \A k \in 1..(n - 1) : IsCont(s[i + k])
             /\ LET cp == Payload(s, i, n)
                IN  /\ cp <= 1114111
                    /\ ~(cp >= 55296 /\ cp <= 57343)
                    /\ EncodedLen(cp) = n
             /\ ScalarsFrom(s, i + n)

ValidUtf8(s) == ScalarsFrom(s, 1)

C6_valid ==
    /\ bstr.some => ValidUtf8(bstr.bytes)
    /\ call.op \in {"deref", "into_bytes"} => ValidUtf8(call.out)
    /\ call.op = "from_utf8" =>
          /\ call.res = (IF ValidUtf8(call.arg) THEN "Ok" ELSE "Err")
          /\ call.res = "Err" => ~bstr.some
          /\ call.res = "Ok" => bstr = ByteStr(call.arg)

C6_never_mutated == (bstr.some /\ bstr'.some) => bstr'.bytes = bstr.bytes

\* C6: every ByteStr built by new, default, from_static, from_utf8,
\* From<String> or From<&str> holds valid UTF-8, also after clones and
\* conversions, none of which changes the bytes; from_utf8 returns an error,
\* and builds nothing, exactly when its argument is not valid UTF-8.
C6_always_utf8 == []C6_valid /\ [][C6_never_mutated]_vars

\* A clone of a ByteStr holding U+00E9 and 'A'.
C6_witness ==
    bstr.some /\ bstr.bytes = <<195, 169, 65>> /\ call.op = "clone"

(***************************************************************************)
(* Properties of HeaderValue.                                              *)
(***************************************************************************)

C7_from_static_uses_is_valid ==
    call.op = "from_static" =>
        LET src == call.arg
            good == \A i \in 1..Len(src) :
                        (src[i] >= 32 /\ src[i] # 127) \/ src[i] = 9
        IN  /\ call.res = (IF good THEN "Ok" ELSE "Panic")
            /\ good => val = HeaderValue(src, FALSE)

\* C7 amended: from_static faults iff the literal holds a byte outside
\* visible ASCII (32 <= b < 127) and tab, and otherwise yields a
\* non-sensitive value holding the literal's bytes.
C7_from_static_visible_ascii ==
    call.op = "from_static" =>
        LET src == call.arg
            good == \A i \in 1..Len(src) :
                        (src[i] >= 32 /\ src[i] < 127) \/ src[i] = 9
        IN  /\ call.res = (IF good THEN "Ok" ELSE "Panic")
            /\ good => val = HeaderValue(src, FALSE)
            /\ ~good => ~val.some

\* The literal U+00E9: both bytes pass is_valid, and from_static faults.
C7_witness ==
    /\ call.op = "from_static"
    /\ call.arg = <<195, 169>>
    /\ call.res = "Panic"
    /\ is_valid(195) /\ is_valid(169)

\* C8: HeaderValue::from_str(s) returns InvalidHeaderValue whenever s holds a
\* byte outside visible ASCII and tab, such as a byte in 128..255.
C8_from_str_visible_ascii_only ==
    call.op = "from_str" =>
        ((\E i \in 1..Len(call.arg) :
              ~((call.arg[i] >= 32 /\ call.arg[i] < 127) \/ call.arg[i] = 9))
            => call.res = "Err")

\* C9: to_str() returns Ok iff every byte b of the value has 32 <= b < 127
\* or b = 9, the text then has exactly the value's bytes, it returns
\* ToStrError otherwise, and the call leaves the value as it was.
C9_to_str_visible_iff ==
    [][call'.op = "to_str" =>
          LET good == \A i \in 1..Len(val.inner) :
                          (val.inner[i] >= 32 /\ val.inner[i] < 127) \/ val.inner[i] = 9
          IN  /\ val.some
              /\ val' = val
              /\ call'.res = (IF good THEN "Ok" ELSE "Err")
              /\ good => call'.out = val.inner]_vars

\* A value only from_bytes can build, whose to_str fails.
C9_witness ==
    /\ val.some
    /\ val.inner = <<32, 255>>
    /\ call.op = "to_str"
    /\ call.res = "Err"

\* The three comparisons of the two values with their flags set to f and g.
Outcomes(a, b, f, g) ==
    LET x == [a EXCEPT !.is_sensitive = f]
        y == [b EXCEPT !.is_sensitive = g]
    IN  <<HeaderValue_eq(x, y), HeaderValue_cmp(x, y),
          HeaderValue_hash(x) = HeaderValue_hash(y)>>

C10_flag_free ==
    (val.some /\ other.some) =>
        /\ \A f, g \in BOOLEAN :
              Outcomes(val, other, f, g) =
                  Outcomes(val, other, val.is_sensitive, other.is_sensitive)
        /\ val.inner = other.inner =>
              /\ HeaderValue_eq(val, other)
              /\ HeaderValue_cmp(val, other) = "Equal"
              /\ HeaderValue_hash(val) = HeaderValue_hash(other)
        /\ val.inner # other.inner =>
              /\ ~HeaderValue_eq(val, other)
              /\ HeaderValue_cmp(val, other) # "Equal"

C10_set_sensitive_keeps ==
    (val.some /\ other.some /\ call'.op = "set_sensitive") =>
        Outcomes(val', other', val'.is_sensitive, other'.is_sensitive) =
            Outcomes(val, other, val.is_sensitive, other.is_sensitive)

\* C10: equality, ordering and hash of two HeaderValues depend only on their
\* bytes: whatever the two flags, the outcomes are the same; values with the
\* same bytes are equal, compare Equal and hash alike; and a set_sensitive
\* call changes none of the three outcomes.
C10_sensitivity_excluded ==
    []C10_flag_free /\ [][C10_set_sensitive_keeps]_vars

\* Two values with the same bytes and different flags.
C10_witness ==
    /\ val.some /\ other.some
    /\ val.inner = <<65, 200>>
    /\ other.inner = val.inner
    /\ val.is_sensitive # other.is_sensitive

\* C11: the Debug rendering of a sensitive HeaderValue is exactly the text
\* Sensitive, whatever its bytes, so that any two sensitive values render
\* alike and the rendering tells nothing of the content or its length.
C11_sensitive_redacted ==
    (call.op = "fmt" /\ val.is_sensitive) =>
        /\ call.out = <<83, 101, 110, 115, 105, 116, 105, 118, 101>>
        /\ \A src \in HVInputs :
              HeaderValue_fmt(HeaderValue(src, TRUE)) = call.out

\* The rendering of a sensitive value that holds two bytes.
C11_witness ==
    /\ call.op = "fmt"
    /\ val.is_sensitive
    /\ val.inner = <<34, 255>>

\* The value of a hexadecimal digit character (16 if it is none).
HexVal(c) ==
    IF c >= 48 /\ c <= 57 THEN c - 48
    ELSE IF c >= 97 /\ c <= 102 THEN c - 87
    ELSE 16

\* The rendering of one byte of a non-sensitive value.
Rendered(b) ==
    IF b = 34 THEN <<92, 34>>
    ELSE IF (b >= 32 /\ b < 127) \/ b = 9 THEN <<b>>
    ELSE <<92, 120>> \o
         (IF b < 16
          THEN <<CHOOSE c \in 48..102 : HexVal(c) = b>>
          ELSE <<CHOOSE c \in 48..102 : HexVal(c) = b \div 16,
                 CHOOSE c \in 48..102 : HexVal(c) = b % 16>>)

RECURSIVE RenderedFrom(_, _)
RenderedFrom(bytes, i) ==
    IF i > Len(bytes) THEN <<>>
    ELSE Rendered(bytes[i]) \o RenderedFrom(bytes, i + 1)

\* C12: the Debug rendering of a non-sensitive HeaderValue is a double
\* quote, then for each byte in order the byte itself if it is visible ASCII
\* or tab and not a double quote, backslash and double quote for a double
\* quote, and backslash, x and the byte's lowercase hexadecimal value without
\* padding otherwise, then a double quote: no byte is dropped, duplicated or
\* reordered.
C12_debug_rendering ==
    (call.op = "fmt" /\ ~val.is_sensitive) =>
        call.out = <<34>> \o RenderedFrom(val.inner, 1) \o <<34>>

\* A quote then a line feed: "\"\xa" between quotes.
C12_witness ==
    /\ call.op = "fmt"
    /\ ~val.is_sensitive
    /\ val.inner = <<34, 10>>
    /\ call.out = <<34, 92, 34, 92, 120, 97, 34>>

\* C13: from_maybe_shared(src), for a Bytes buffer and for any other source
\* type, and TryFrom<Vec<u8>> and TryFrom<String>, give the outcome of
\* from_bytes on the same bytes: Ok iff every byte b has (b >= 32 and
\* b # 127) or b = 9, the value then holds exactly those bytes and is not
\* sensitive; InvalidHeaderValue otherwise.
C13_maybe_shared_as_from_bytes ==
    call.op \in {"from_maybe_shared", "try_from_vec", "try_from_string"} =>
        LET src == call.arg
            good == \A i \in 1..Len(src) :
                        (src[i] >= 32 /\ src[i] # 127) \/ src[i] = 9
            r == HeaderValue_from_bytes(src)
        IN  /\ call.res = (IF good THEN "Ok" ELSE "Err")
            /\ good => val = HeaderValue(src, FALSE)
            /\ ~good => ~val.some
            /\ call.res = r.res
            /\ val = r.value

\* A Bytes buffer holding DEL is refused.
C13_witness ==
    /\ call.op = "from_maybe_shared"
    /\ call.out = <<TRUE>>
    /\ call.arg = <<127>>
    /\ call.res = "Err"

\* C14: in a debug build from_maybe_shared_unchecked(src) panics if src is
\* not valid UTF-8, and returns a value holding the bytes of src if src is
\* valid UTF-8.
C14_unchecked_panics_iff_not_utf8 ==
    (call.op = "from_maybe_shared_unchecked" /\ call.out[2]) =>
        /\ ~ValidUtf8(call.arg) => call.res = "Panic"
        /\ ValidUtf8(call.arg) =>
              call.res = "Ok" /\ val.some /\ val.inner = call.arg

\* a is lexicographically less than b: they agree on k bytes, and then a
\* ends and b does not, or a has the smaller byte.
LexLess(a, b) ==
    \E k \in 0..Len(a) :
        /\ k <= Len(b)
        /\ \A i \in 1..k : a[i] = b[i]
        /\ \/ k = Len(a) /\ k < Len(b)
           \/ k < Len(a) /\ k < Len(b) /\ a[k + 1] < b[k + 1]

Lex(a, b) ==
    IF a = b THEN "Equal" ELSE IF LexLess(a, b) THEN "Less" ELSE "Greater"

Reversed(o) ==
    CASE o = "Less" -> "Greater" [] o = "Greater" -> "Less" [] o = "Equal" -> "Equal"

\* C15: for a HeaderValue v and an operand x of type str, &str, String or
\* [u8], v == x and x == v are both the equality of v's bytes with x's
\* bytes, v.partial_cmp(x) is the lexicographic comparison of v's bytes with
\* x's bytes, and x.partial_cmp(v) is its reverse.
C15_cross_type_bytewise ==
    call.op = "compare" =>
        LET x == call.arg
            o == call.out
        IN  /\ o[1] = (val.inner = x)
            /\ o[2] = o[1]
            /\ o[3] = Lex(val.inner, x)
            /\ o[4] = Reversed(o[3])

\* A value that is a proper prefix of the str it is compared with.
C15_witness ==
    /\ call.op = "compare"
    /\ call.res = "str"
    /\ val.inner = <<65>>
    /\ call.arg = <<65, 32>>
    /\ call.out = <<FALSE, FALSE, "Less", "Greater">>

\* acc * 10 + d over the limbs, with the carry out of the top limb.
RECURSIVE MulAddFrom(_, _, _)
MulAddFrom(acc, i, carry) ==
    IF i = 0 THEN [limbs |-> acc, carry |-> carry]
    ELSE LET cur == acc[i] * 10 + carry
         IN  MulAddFrom([acc EXCEPT ![i] = cur % 65536], i - 1, cur \div 65536)

\* The number a digit string denotes, in n limbs; overflow is TRUE if it
\* does not fit.
RECURSIVE FromDecimal(_, _, _, _)
FromDecimal(digits, i, acc, overflow) ==
    IF i > Len(digits) THEN [limbs |-> acc, overflow |-> overflow]
    ELSE LET r == MulAddFrom(acc, Len(acc), digits[i] - 48)
         IN  FromDecimal(digits, i + 1, r.limbs, overflow \/ r.carry # 0)

\* a + b modulo 2^(16 * limbs).
RECURSIVE AddFrom(_, _, _, _)
AddFrom(a, b, i, carry) ==
    IF i = 0 THEN a
    ELSE LET cur == a[i] + b[i] + carry
         IN  AddFrom([a EXCEPT ![i] = cur % 65536], b, i - 1, cur \div 65536)

\* C16: for an integer n of type u16, i16, u32, i32, u64, i64, usize or
\* isize, HeaderValue::from(n) does not fail and holds the decimal text of
\* n: a '-' exactly when n is negative, then digits without a leading zero
\* that denote the magnitude of n; every byte satisfies is_valid, and the
\* text is no longer than the width declared for the type.
C16_from_integer_decimal ==
    call.op = "from_integer" =>
        LET ty == call.arg.ty
            bits == call.arg.bits
            t == val.inner
            negative == ty.signed /\ bits[1] >= 32768
            digits == IF negative THEN Tail(t) ELSE t
            zero == [i \in 1..ty.limbs |-> 0]
            n == FromDecimal(digits, 1, zero, FALSE)
        IN  /\ call.res = "Ok"
            /\ val.some /\ ~val.is_sensitive
            /\ Len(t) >= 1
            /\ (t[1] = 45) <=> negative
            /\ Len(digits) >= 1
            /\ \A i \in 1..Len(digits) : digits[i] >= 48 /\ digits[i] <= 57
            /\ digits[1] = 48 => Len(digits) = 1
            /\ ~n.overflow
            /\ IF negative
               THEN ~IsZero(n.limbs) /\ AddFrom(n.limbs, bits, ty.limbs, 0) = zero
               ELSE n.limbs = bits
            /\ \A i \in 1..Len(t) : (t[i] >= 32 /\ t[i] # 127) \/ t[i] = 9
            /\ Len(t) <= ty.max_len

\* i64::MIN: the twenty characters of -9223372036854775808.
C16_witness ==
    /\ call.op = "from_integer"
    /\ call.arg.ty = IntType("i64", 4, TRUE, 20)
    /\ call.arg.bits = <<32768, 0, 0, 0>>
    /\ val.inner = <<45, 57, 50, 50, 51, 51, 55, 50, 48, 51, 54, 56, 53, 52,
                     55, 55, 53, 56, 48, 56>>

(***************************************************************************)
(* Further properties of Method.                                           *)
(***************************************************************************)
\* The upper-case name of each standard verb.
VerbName ==
    [Get |-> <<71, 69, 84>>, Put |-> <<80, 85, 84>>,
     Post |-> <<80, 79, 83, 84>>, Head |-> <<72, 69, 65, 68>>,
     Patch |-> <<80, 65, 84, 67, 72>>, Trace |-> <<84, 82, 65, 67, 69>>,
     Delete |-> <<68, 69, 76, 69, 84, 69>>,
     Options |-> <<79, 80, 84, 73, 79, 78, 83>>,
     Connect |-> <<67, 79, 78, 78, 69, 67, 84>>]

ExtensionTags == {"ExtensionInline", "ExtensionAllocated"}

\* C17: Method::from_bytes(src) yields a standard-verb value iff src is byte
\* for byte the upper-case name of that verb; the result is then the
\* constant of that verb and not an extension; every other accepted token,
\* a case variant such as "get" included, yields an extension value that
\* equals none of the nine constants.
C17_standard_fast_path ==
    (call.op = "from_bytes" /\ call.res = "Ok") =>
        /\ \A tag \in DOMAIN VerbName :
              (call.arg = VerbName[tag]) <=> (method.tag = tag)
        /\ method.tag \in DOMAIN VerbName =>
              /\ method = Standard(method.tag)
              /\ Method_eq(method, Standard(method.tag))
        /\ method.tag \notin DOMAIN VerbName =>
              /\ method.tag \in ExtensionTags
              /\ \A tag \in DOMAIN VerbName : ~Method_eq(method, Standard(tag))

\* DELETE takes the fast path.
C17_witness ==
    /\ call.op = "from_bytes"
    /\ call.arg = <<68, 69, 76, 69, 84, 69>>
    /\ method = Standard("Delete")

C18_back ==
    method.some =>
        LET r == Method_from_bytes(Method_as_str(method))
        IN  r.res = "Ok" /\ r.value = method /\ Method_eq(r.value, method)

C18_forth ==
    (call.op \in {"from_bytes", "from_str"} /\ call.res = "Ok" /\ call'.op = "as_str")
        => call'.out = call.arg

\* C18: for every slice t that Method::from_bytes accepts, the as_str() of
\* the result has exactly the bytes of t, whether the method is a standard
\* verb, inline or allocated; and from_bytes of the as_str() of any Method
\* is that Method again.
C18_round_trip == []C18_back /\ [][C18_forth]_vars

\* The text of an inline extension shorter than its buffer.
C18_witness ==
    /\ call.op = "as_str"
    /\ method.tag = "ExtensionInline"
    /\ method.len = 2
    /\ call.out = <<33, 126>>

\* C19: a token that is not a standard verb is stored inline iff it has at
\* most 15 bytes and allocated iff it has at least 16; the allocated buffer
\* has exactly the length of the token.  Fifteen letters are inline,
\* sixteen are allocated.
C19_inline_allocated_boundary ==
    (call.op = "from_bytes" /\ call.res = "Ok"
        /\ \A tag \in DOMAIN VerbName : call.arg # VerbName[tag]) =>
        /\ (method.tag = "ExtensionInline") <=> (Len(call.arg) <= 15)
        /\ (method.tag = "ExtensionAllocated") <=> (Len(call.arg) >= 16)
        /\ method.tag = "ExtensionInline" =>
              Len(method.data) = 15 /\ method.len = Len(call.arg)
        /\ method.tag = "ExtensionAllocated" =>
              Len(method.data) = Len(call.arg)

\* Fifteen letters, stored inline.
C19_witness ==
    /\ call.op = "from_bytes"
    /\ call.arg = [i \in 1..15 |-> 65]
    /\ method.tag = "ExtensionInline"
    /\ method.len = 15

\* C20: two Methods built by from_bytes or taken from the constants are
\* equal iff their texts are equal, and then they hash alike; a Method and
\* a str are equal, either way round, iff the Method's text is the str;
\* two Methods with the same text have the same representation, padding
\* bytes included.
C20_equality_is_textual ==
    /\ (method.some /\ other.some /\ Method_as_str(method) = Method_as_str(other))
          => method = other
    /\ call.op = "eq" =>
          /\ call.out[1] = (Method_as_str(method) = Method_as_str(other))
          /\ call.out[1] => call.out[2]
    /\ call.op = "eq_str" =>
          \A k \in 1..4 : call.out[k] = (Method_as_str(method) = call.arg)

\* Two inline extensions of the same length with different texts.
C20_witness ==
    /\ call.op = "eq"
    /\ method.tag = "ExtensionInline"
    /\ other.tag = "ExtensionInline"
    /\ method.len = other.len
    /\ call.out = <<FALSE, FALSE>>

\* C21: is_safe() is true exactly for GET, HEAD, OPTIONS and TRACE, and
\* is_idempotent() exactly for those four, PUT and DELETE; both are false
\* for POST, CONNECT, PATCH and every extension method, and a safe method
\* is idempotent.
C21_safe_and_idempotent ==
    /\ method.some => (is_safe(method) => is_idempotent(method))
    /\ call.op = "is_safe" =>
          call.out = (Method_as_str(method) \in
                         {VerbName.Get, VerbName.Head, VerbName.Options, VerbName.Trace})
    /\ call.op = "is_idempotent" =>
          call.out = (Method_as_str(method) \in
                         {VerbName.Get, VerbName.Head, VerbName.Options, VerbName.Trace,
                          VerbName.Put, VerbName.Delete})
    /\ (call.op \in {"is_safe", "is_idempotent"}
           /\ (method.tag \in ExtensionTags
                  \/ Method_as_str(method) \in
                         {VerbName.Post, VerbName.Connect, VerbName.Patch}))
          => call.out = FALSE

\* PUT is idempotent and not safe.
C21_witness ==
    /\ call.op = "is_idempotent"
    /\ method = Standard("Put")
    /\ call.out = TRUE
    /\ ~is_safe(method)

(***************************************************************************)
(* Further properties of StatusCode.                                       *)
(***************************************************************************)
\* C22: for every StatusCode with value v, as_str() returns the three ASCII
\* decimal digits of v, read from CODE_DIGITS at [(v-100)*3, (v-100)*3+3);
\* the subtraction does not underflow and the range lies inside the table
\* of 2700 bytes, so the lookup never reads out of bounds.
C22_as_str_digits_in_table ==
    /\ Len(CODE_DIGITS) = 2700
    /\ call.op = "as_str" =>
          LET v == status.code
          IN  /\ v >= 100
              /\ (v - 100) * 3 >= 0
              /\ (v - 100) * 3 + 3 <= Len(CODE_DIGITS)
              /\ call.res = "Ok"
              /\ call.out = <<48 + (v \div 100), 48 + ((v \div 10) % 10), 48 + (v % 10)>>
              /\ call.out = [k \in 1..3 |-> CODE_DIGITS[(v - 100) * 3 + k]]

\* The last three bytes of the table.
C22_witness ==
    /\ call.op = "as_str"
    /\ status.code = 999
    /\ call.out = <<57, 57, 57>>

\* C23: at most one of is_informational, is_success, is_redirection,
\* is_client_error and is_server_error holds of a StatusCode; below 600
\* exactly one holds, the one its hundreds digit selects (1..5 in that
\* order); from 600 to 999 none holds.
C23_classification_partition ==
    call.op = "classify" =>
        LET v == status.code
            o == call.out
        IN  /\ Cardinality({k \in 1..5 : o[k]}) <= 1
            /\ v < 600 => {k \in 1..5 : o[k]} = {v \div 100}
            /\ (v >= 600 /\ v <= 999) => {k \in 1..5 : o[k]} = {}

\* 600 is a valid code of no class.
C23_witness ==
    /\ call.op = "classify"
    /\ status.code = 600
    /\ call.out = <<FALSE, FALSE, FALSE, FALSE, FALSE>>

(***************************************************************************)
(* Properties of uri::Builder.                                             *)
(***************************************************************************)
\* The positions in the chain of the setters whose conversion failed.
Failed == {i \in 1..Len(chain) : ~chain[i].arg.ok}

\* C24: when the conversion inside scheme, authority or path_and_query
\* fails, the setter still returns a Builder and no error surfaces at that
\* call; the later build() returns Err, whatever setters were called in
\* between.
C24_error_deferred_to_build ==
    /\ call.op \in Setters => call.res = "Builder" /\ builder.some
    /\ (call.op = "build" /\ Failed # {}) => call.res = "Err"

\* A failed scheme followed by a good authority, then build().
C24_witness ==
    /\ call.op = "build"
    /\ call.res = "Err"
    /\ Len(chain) = 2
    /\ chain[1].op = "scheme" /\ ~chain[1].arg.ok
    /\ chain[2].op = "authority" /\ chain[2].arg.ok

C29_first_error ==
    /\ (builder.some /\ Failed # {}) =>
          LET first == CHOOSE i \in Failed : \A j \in Failed : i <= j
          IN  builder.parts = PartsErr(<<chain[first].op, chain[first].arg.err>>)
    /\ (call.op = "build" /\ Failed # {}) =>
          LET first == CHOOSE i \in Failed : \A j \in Failed : i <= j
          IN  /\ call.res = "Err"
              /\ call.out = <<chain[first].op, chain[first].arg.err>>

C29_error_kept ==
    (builder.some /\ ~builder.parts.ok /\ builder'.some) => builder' = builder

\* C29: once a setter has failed the builder stays in the error state:
\* later setters neither clear nor replace the error, whether they are
\* given a valid value for the same part or another invalid value, and
\* build() returns the error of the first failing setter.
C29_first_error_sticks == []C29_first_error /\ [][C29_error_kept]_vars

\* scheme fails, scheme is set again with a valid value, authority fails
\* with another error: build() returns the first error.
C29_witness ==
    /\ call.op = "build"
    /\ Len(chain) = 3
    /\ chain[1] = [op |-> "scheme", arg |-> [ok |-> FALSE, v |-> 0, err |-> 1]]
    /\ chain[2] = [op |-> "scheme", arg |-> [ok |-> TRUE, v |-> 1, err |-> 0]]
    /\ chain[3] = [op |-> "authority", arg |-> [ok |-> FALSE, v |-> 0, err |-> 2]]
    /\ call.out = <<"scheme", 1>>

(***************************************************************************)
(* Properties of the HeaderMap conformance test.                           *)
(***************************************************************************)
KeysOf(a) == {n \in FuzzNames : a[n].present}

C25_state_matches ==
    /\ call.op \in {"insert", "append", "remove"} =>
          call.res = "Ok" /\ call.out[1] = call.out[2]
    /\ HeaderMap_keys_len(hmap) = Cardinality(KeysOf(alt))
    /\ \A n \in FuzzNames :
          /\ HeaderMap_get_all(hmap, n) = (IF alt[n].present THEN alt[n].vals ELSE <<>>)
          /\ HeaderMap_get(hmap, n) =
                (IF alt[n].present /\ alt[n].vals # <<>> THEN alt[n].vals[1] ELSE NoValue)
          /\ alt[n].present => alt[n].vals # <<>>

C25_step ==
    LET n == call'.arg.name
        v == call'.arg.val
        before == IF alt[n].present THEN alt[n].vals ELSE <<>>
        after == IF alt'[n].present THEN alt'[n].vals ELSE <<>>
        first == IF before = <<>> THEN NoValue ELSE before[1]
    IN  /\ call'.op = "insert" =>
              call'.out[2] = first /\ alt'[n].present /\ after = <<v>>
        /\ call'.op = "append" =>
              call'.out[2] = (before # <<>>) /\ alt'[n].present /\ after = Append(before, v)
        /\ call'.op = "remove" =>
              call'.out[2] = first /\ ~alt'[n].present
        /\ \A k \in FuzzNames \ {n} : alt'[k] = alt[k]

\* C25: after any sequence of insert, append and remove, every return value
\* of the HeaderMap and its observable state (keys_len, get, get_all) match
\* the reference map from name to list of values: insert returns the
\* previous first value or none and leaves exactly the new value, append
\* returns whether the name had a value and adds the value at the end,
\* remove returns the first value or none and drops the name.
C25_matches_reference == []C25_state_matches /\ [][C25_step]_vars

\* An insert over a name that has a value, with another name in the map:
\* the old value is returned and replaced.
C25_witness ==
    /\ call.op = "insert"
    /\ call.out[1].some
    /\ call.out[1].inner = <<65>>
    /\ call.arg.val.inner = <<45, 45>>
    /\ Len(hmap) = 2
    /\ HeaderMap_keys_len(hmap) = 2

(***************************************************************************)
(* Properties of the sensitivity flag.                                     *)
(***************************************************************************)
\* The value as it was directly after construction: same bytes, flag unset.
AsConstructed(v) == HeaderValue(v.inner, FALSE)

C26_step ==
    /\ ~val.some /\ val'.some => ~HeaderValue_is_sensitive(val')
    /\ val.some =>
          /\ val'.some
          /\ HeaderValue_as_bytes(val') = HeaderValue_as_bytes(val)
          /\ HeaderValue_is_sensitive(val') =
                (IF call'.op = "set_sensitive" THEN call'.arg
                 ELSE HeaderValue_is_sensitive(val))
          /\ call'.op = "is_sensitive" => call'.out = HeaderValue_is_sensitive(val)
          /\ call'.op = "as_bytes" =>
                call'.out = HeaderValue_as_bytes(AsConstructed(val))
          /\ call'.op = "len" => call'.out = HeaderValue_len(AsConstructed(val))
          /\ call'.op = "to_str" =>
                /\ call'.res = HeaderValue_to_str(AsConstructed(val)).res
                /\ call'.out = HeaderValue_to_str(AsConstructed(val)).text

\* C26: a HeaderValue is constructed with the flag unset; set_sensitive
\* changes the flag to its argument and nothing else, no other call changes
\* it, so is_sensitive returns the argument of the most recent
\* set_sensitive (false if there was none); as_bytes, len and to_str
\* return what they returned directly after construction.
C26_set_sensitive_only_flag == [][C26_step]_vars

\* is_sensitive answers true: the flag, unset by the constructor, was set
\* by an earlier set_sensitive(true).
C26_witness ==
    /\ call.op = "is_sensitive"
    /\ call.out = TRUE
    /\ val.inner = <<65>>

(***************************************************************************)
(* Properties of the extension constructors.                               *)
(***************************************************************************)
\* C27: Method::from_bytes never panics: it returns Ok or Err for every
\* slice; InlineExtension::new runs only for lengths 1 to 15 and
\* AllocatedExtension::new only for lengths of 16 or more, because the
\* inline capacity MAX (15) is at least 7, the longest length with an arm of
\* its own that calls extension_inline.
C27_from_bytes_never_panics ==
    /\ InlineExtension_MAX >= 7
    /\ call.op \in {"from_bytes", "from_str"} =>
          /\ call.res \in {"Ok", "Err"}
          /\ call.res = "Ok" <=> method.some
          /\ call.out = "InlineExtension" =>
                1 <= Len(call.arg) /\ Len(call.arg) <= InlineExtension_MAX
          /\ call.out = "AllocatedExtension" =>
                Len(call.arg) >= InlineExtension_MAX + 1
          /\ method.some /\ method.tag = "ExtensionInline" =>
                call.out = "InlineExtension"
          /\ method.some /\ method.tag = "ExtensionAllocated" =>
                call.out = "AllocatedExtension"

\* A token of 16 valid bytes went through AllocatedExtension::new.
C27_witness ==
    /\ call.op = "from_bytes"
    /\ call.res = "Ok"
    /\ call.out = "AllocatedExtension"
    /\ Len(call.arg) = InlineExtension_MAX + 1
    /\ method.data = call.arg

(***************************************************************************)
(* Properties of method tokens as header values.                           *)
(***************************************************************************)
\* The bytes METHOD_CHARS accepts.
MethodTokenBytes == {b \in Byte : METHOD_CHARS[b + 1] # 0}

\* C28: every byte the method-token table accepts satisfies is_valid and
\* is_visible_ascii and is 7-bit; so for every Method m,
\* HeaderValue::from_bytes(m.as_str().as_bytes()) succeeds and its to_str()
\* returns m.as_str().
C28_method_is_header_value ==
    /\ \A b \in MethodTokenBytes : is_valid(b) /\ is_visible_ascii(b) /\ b < 128
    /\ call.op = "from_method" =>
          /\ call.res = "Ok"
          /\ val.some
          /\ HeaderValue_as_bytes(val) = Method_as_str(method)
    /\ call.op = "to_str" /\ method.some =>
          /\ call.res = "Ok"
          /\ call.out = Method_as_str(method)

\* to_str of the header value built from the 16-byte extension method
\* returns the method's text.
C28_witness ==
    /\ call.op = "to_str"
    /\ call.res = "Ok"
    /\ method.some
    /\ method.tag = "ExtensionAllocated"
    /\ call.out = Method_as_str(method)
    /\ Len(call.out) = InlineExtension_MAX + 1

(***************************************************************************)
(* Properties of the Debug rendering as a function of the bytes.           *)
(***************************************************************************)
\* The value holds neither a backslash nor a tab.
NoBackslashNoTab(v) == \A i \in 1..Len(v.inner) : v.inner[i] \notin {92, 9}

====
